---- MODULE Spec2Model ----
(***************************************************************************)
(* A model of the versioned sparse Merkle tree of bnb-chain/bas-smt:       *)
(* BASSparseMerkleTree (src/smt.go) over the packed TreeNode               *)
(* (src/interface.go), with a key-value store behind it.                   *)
(*                                                                         *)
(* Hashes are byte strings in the code.  Here a hash is a sequence of      *)
(* integers: the preorder text of the term that was hashed, so that two    *)
(* hashes are equal exactly when the hashed terms are (a collision-free    *)
(* hasher).  <<-1>> is the nil leaf hash, <<-(h+1)>> the hash of an empty  *)
(* subtree of height h, <<n>> with n > 0 a leaf value, <<0>> \o a \o b the *)
(* hash of the pair (a, b).  << >> is Go's nil byte slice.                 *)
(***************************************************************************)
EXTENDS Integers, Sequences, FiniteSets, TLC

\* ------------------------------------------------------------------------
\* Configuration of the tree under test and bounds of the exploration
\* ------------------------------------------------------------------------

\* maxDepth passed to NewBASSparseMerkleTree (the tests use 8).
MaxDepth == 8

\* Bounds of the exploration.
MaxOps == 5
MaxVersion == 3
MaxFails == 1

\* Bounds of the longer runs of Set and Commit alone (SpecDeep).
DeepOps == 6
DeepVersion == 4

\* The deepest tree of the key tests, in nibbles: 16 nibbles are the 64 bits
\* of a key.
MaxNibbles == 16

\* The batchSizeLimit option: the default of NewBASSparseMerkleTree, and a
\* limit every record exceeds.
DefaultBatchSizeLimit == 102400
SmallBatchSizeLimit == 0

\* The GCThreshold option, in bytes: the default of NewBASSparseMerkleTree, an
\* eighth of the memory of a machine with 8 GiB, and a small one.
DefaultGCThreshold == 1073741824
SmallGCThreshold == 1000

\* The keys and leaf values the exploration sets.
Keys == {0, 1, 2}
\* The keys of the longer runs: under two children of the root.
DeepKeys == {0, 16}
NilLeaf == <<-1>>
\* The Set calls the exploration makes: a value for three keys of one node,
\* and the nil leaf for one of them.
Inputs == {<<0, <<1>>>>, <<0, NilLeaf>>, <<1, <<1>>>>, <<2, <<1>>>>}

NoBytes == << >>

\* A nil *TreeNode or an absent store record.
Null == [null |-> TRUE]

\* A nil *Version argument.
NoVersion == -1

\* ------------------------------------------------------------------------
\* Hasher and nil hashes
\* ------------------------------------------------------------------------

\* Hasher.Hash(a, b): a collision-free binary hash.
Hash(a, b) ==
    IF a = b /\ Len(a) = 1 /\ a[1] < 0
    THEN <<a[1] - 1>>
    ELSE <<0>> \o a \o b

\* constructNilHashes: hashes[maxDepth] = nilHash, hashes[d] = H(hashes[d+1], hashes[d+1]).
RECURSIVE constructNilHashes(_)
constructNilHashes(d) ==
    IF d = MaxDepth
    THEN NilLeaf
    ELSE LET below == constructNilHashes(d + 1) IN Hash(below, below)

\* The table NewBASSparseMerkleTree builds once.
NilHashes == [d \in 0 .. MaxDepth |-> constructNilHashes(d)]

\* nilHashes.Get: nil when depth is beyond the table.
NilHashesGet(depth) ==
    IF depth > MaxDepth THEN NoBytes ELSE NilHashes[depth]

\* ------------------------------------------------------------------------
\* TreeNode (src/interface.go)
\* ------------------------------------------------------------------------

Nibbles == 0 .. 15

\* The nibble of a key at level i (0 = root): (key >> (maxDepth - (i+1)*4)) & 0xf.
PathAt(key, i) == key \div (2 ^ (MaxDepth - (i + 1) * 4))
NibbleAt(key, i) == PathAt(key, i) % 16

\* n XOR 1 on a small non-negative integer.
Xor1(n) == IF n % 2 = 0 THEN n + 1 ELSE n - 1

\* NewTreeNode(depth, path, nilHashes, hasher)
NewTreeNode(depth, path) ==
    [ Children  |-> [i \in Nibbles |-> Null],
      Internals |-> [i \in 0 .. 13 |->
                        IF i < 2 THEN NilHashesGet(depth + 1)
                        ELSE IF i < 6 THEN NilHashesGet(depth + 2)
                        ELSE NilHashesGet(depth + 3)],
      Versions  |-> << >>,
      nilHash      |-> NilHashesGet(depth),
      nilChildHash |-> NilHashesGet(depth + 4),
      path  |-> path,
      depth |-> depth,
      hasher    |-> TRUE,
      temporary |-> FALSE ]

\* TreeNode.Root
Root(node) ==
    IF Len(node.Versions) = 0
    THEN node.nilHash
    ELSE node.Versions[Len(node.Versions)].Hash

\* TreeNode.newVersion: overwrite the last entry when it has the same version.
newVersion(versions, version) ==
    IF Len(versions) > 0 /\ versions[Len(versions)].Ver = version.Ver
    THEN [versions EXCEPT ![Len(versions)] = version]
    ELSE Append(versions, version)

\* TreeNode.set (Copy, then newVersion)
set(node, hash, version) ==
    [node EXCEPT !.Versions = newVersion(node.Versions, [Ver |-> version, Hash |-> hash])]

\* A child hash that takes the nil hash of the node's own depth for an empty
\* slot.
ChildRootOrOwn(node, i) ==
    IF node.Children[i] = Null THEN node.nilHash ELSE Root(node.Children[i])

\* The root hash of child slot i as setChildren and computeInternalHash read it.
ChildRootOr(node, i) ==
    IF node.Children[i] = Null THEN node.nilChildHash ELSE Root(node.Children[i])

\* The three internals on the path from slot nibble to the node root, as the
\* loop of setChildren computes them: Internals[6 + n/2], Internals[2 + n/4],
\* Internals[n/8], each from the one below and its sibling.
setChildrenInternals(node, nibble) ==
    LET l0 == IF nibble % 2 = 0 THEN ChildRootOr(node, nibble) ELSE ChildRootOr(node, Xor1(nibble))
        r0 == IF nibble % 2 = 0 THEN ChildRootOr(node, Xor1(nibble)) ELSE ChildRootOr(node, nibble)
        n1 == nibble \div 2
        i1 == [node.Internals EXCEPT ![6 + n1] = Hash(l0, r0)]
        l1 == IF n1 % 2 = 0 THEN i1[6 + n1] ELSE i1[6 + Xor1(n1)]
        r1 == IF n1 % 2 = 0 THEN i1[6 + Xor1(n1)] ELSE i1[6 + n1]
        n2 == n1 \div 2
        i2 == [i1 EXCEPT ![2 + n2] = Hash(l1, r1)]
        l2 == IF n2 % 2 = 0 THEN i2[2 + n2] ELSE i2[2 + Xor1(n2)]
        r2 == IF n2 % 2 = 0 THEN i2[2 + Xor1(n2)] ELSE i2[2 + n2]
        n3 == n2 \div 2
    IN  [i2 EXCEPT ![n3] = Hash(l2, r2)]

\* TreeNode.setChildren
setChildren(node, child, nibble, version) ==
    LET copied == [node EXCEPT !.Children[nibble] = child]
        ints   == setChildrenInternals(copied, nibble)
    IN  [copied EXCEPT
            !.Internals = ints,
            !.Versions  = newVersion(copied.Versions,
                              [Ver |-> version, Hash |-> Hash(ints[0], ints[1])])]

\* TreeNode.computeInternalHash
computeInternalHash(node) ==
    LET lvl3 == [j \in 0 .. 7 |-> Hash(ChildRootOr(node, 2 * j), ChildRootOr(node, 2 * j + 1))]
        lvl2 == [j \in 0 .. 3 |-> Hash(lvl3[2 * j], lvl3[2 * j + 1])]
        lvl1 == [j \in 0 .. 1 |-> Hash(lvl2[2 * j], lvl2[2 * j + 1])]
    IN  [i \in 0 .. 13 |->
            IF i < 2 THEN lvl1[i] ELSE IF i < 6 THEN lvl2[i - 2] ELSE lvl3[i - 6]]

\* TreeNode.release: drop the children whose last version is older than oldestVersion.
release(node, oldestVersion) ==
    [node EXCEPT !.Children = [i \in Nibbles |->
        LET c == node.Children[i] IN
        IF c # Null /\ Len(c.Versions) > 0 /\ c.Versions[Len(c.Versions)].Ver < oldestVersion
        THEN Null
        ELSE c]]

\* The index Prune's loop stops at (0-based, as in the code).
RECURSIVE PruneIndex(_, _, _)
PruneIndex(versions, oldestVersion, i) ==
    IF i < Len(versions) - 1 /\ versions[i + 1].Ver < oldestVersion
    THEN PruneIndex(versions, oldestVersion, i + 1)
    ELSE i

\* Prune that keeps from the first entry at or above the floor, without the
\* entry before it.
PruneFromFloor(versions, oldestVersion) ==
    IF Len(versions) <= 1
    THEN versions
    ELSE SubSeq(versions, PruneIndex(versions, oldestVersion, 0) + 1, Len(versions))

\* The version list Prune leaves: Versions[i-1:] or Versions[i:].
PruneVersions(versions, oldestVersion) ==
    IF Len(versions) <= 1
    THEN versions
    ELSE LET i == PruneIndex(versions, oldestVersion, 0) IN
         IF i > 0 /\ versions[i + 1].Ver > oldestVersion
         THEN SubSeq(versions, i, Len(versions))
         ELSE SubSeq(versions, i + 1, Len(versions))

\* TreeNode.Prune, with its deferred release.
Prune(node, oldestVersion) ==
    release([node EXCEPT !.Versions = PruneVersions(node.Versions, oldestVersion)],
            oldestVersion)

\* The number of entries TreeNode.Rollback keeps: those up to the last one
\* with Ver <= targetVersion, scanning from the end.
RECURSIVE RollbackKeep(_, _, _)
RollbackKeep(versions, targetVersion, i) ==
    IF i >= 1 /\ versions[i].Ver > targetVersion
    THEN RollbackKeep(versions, targetVersion, i - 1)
    ELSE i

\* TreeNode.Rollback: the node afterwards, whether an entry was dropped, and
\* whether computeInternalHash was reached on a node that has no hasher.
NodeRollback(node, targetVersion) ==
    IF Len(node.Versions) = 0
    THEN [node |-> node, next |-> FALSE, panic |-> FALSE]
    ELSE LET keep == RollbackKeep(node.Versions, targetVersion, Len(node.Versions))
             cut  == [node EXCEPT !.Versions = SubSeq(node.Versions, 1, keep)]
         IN  IF ~node.hasher
             THEN [node |-> cut, next |-> keep < Len(node.Versions), panic |-> TRUE]
             ELSE [node |-> [cut EXCEPT !.Internals = computeInternalHash(cut)],
                   next |-> keep < Len(node.Versions), panic |-> FALSE]

\* TreeNode.ToStorageTreeNode
ToStorageTreeNode(node) ==
    [ Children  |-> [i \in Nibbles |->
                        IF node.Children[i] # Null
                        THEN [Versions |-> node.Children[i].Versions]
                        ELSE Null],
      Internals |-> node.Internals,
      Versions  |-> node.Versions ]

\* The placeholder child StorageTreeNode.ToTreeNode builds: versions and nil
\* hashes only, no hasher, depth and path zero, temporary.
Placeholder(versions, depth) ==
    [ Children  |-> [i \in Nibbles |-> Null],
      Internals |-> [i \in 0 .. 13 |-> NoBytes],
      Versions  |-> versions,
      nilHash      |-> NilHashesGet(depth),
      nilChildHash |-> NilHashesGet(depth + 4),
      path  |-> 0,
      depth |-> 0,
      hasher    |-> FALSE,
      temporary |-> TRUE ]

\* StorageTreeNode.ToTreeNode
ToTreeNode(rec, depth, path) ==
    [ Children  |-> [i \in Nibbles |->
                        IF rec.Children[i] # Null
                        THEN Placeholder(rec.Children[i].Versions, depth + 4)
                        ELSE Null],
      Internals |-> rec.Internals,
      Versions  |-> rec.Versions,
      nilHash      |-> NilHashesGet(depth),
      nilChildHash |-> NilHashesGet(depth + 4),
      path  |-> path,
      depth |-> depth,
      hasher    |-> TRUE,
      temporary |-> FALSE ]

\* ------------------------------------------------------------------------
\* The store (database.TreeDB): latestVersion, recentVersionNumber and the
\* node records under storageFullTreeNodeKey(depth, path)
\* ------------------------------------------------------------------------

Levels == MaxDepth \div 4

\* The (depth, path) of the node at level i on the path of key.
PosOf(key, i) == <<4 * i, IF i = 0 THEN 0 ELSE PathAt(key, i - 1)>>

\* storageFullTreeNodeKey(depth, path) for every node the keys can touch.
Positions == {PosOf(k, i) : k \in Keys \cup DeepKeys, i \in 0 .. Levels}

\* -1 stands for a metadata key that is not in the store.
EmptyDB ==
    [ latestVersion       |-> -1,
      recentVersionNumber |-> -1,
      nodes               |-> [p \in Positions |-> Null] ]

\* ------------------------------------------------------------------------
\* BASSparseMerkleTree (src/smt.go): pure forms of the operations
\* ------------------------------------------------------------------------

\* extendNode: the child in slot nibble afterwards (store reads succeed or
\* report not-found).
extendNode(db, node, nibble, path, depth) ==
    IF node.Children[nibble] # Null /\ ~node.Children[nibble].temporary
    THEN node.Children[nibble]
    ELSE IF db.nodes[<<depth, path>>] = Null
         THEN NewTreeNode(depth, path)
         ELSE ToTreeNode(db.nodes[<<depth, path>>], depth, path)

\* IsEmpty
IsEmpty(root) == Root(root) = NilHashesGet(0)

\* Set, the copy-on-write side: the new copy of the node at level i.
RECURSIVE SetCopy(_, _, _, _, _, _)
SetCopy(db, node, key, i, val, nv) ==
    IF i = Levels
    THEN set(node, val, nv)
    ELSE LET nib   == NibbleAt(key, i)
             child == extendNode(db, node, nib, PathAt(key, i), 4 * (i + 1))
         IN  setChildren(node, SetCopy(db, child, key, i + 1, val, nv), nib, nv)

\* Set, the in-place side: what the node copied at level i looks like
\* afterwards.  extendNode has filled its slot, and newVersion on the copy
\* has overwritten the last entry of the version slice the two share when
\* that entry already carried the new version.
RECURSIVE SetInPlace(_, _, _, _, _, _)
SetInPlace(db, node, copy, key, i, nv) ==
    LET n    == Len(node.Versions)
        vers == IF n > 0 /\ node.Versions[n].Ver = nv
                THEN [node.Versions EXCEPT ![n] = copy.Versions[Len(copy.Versions)]]
                ELSE node.Versions
    IN  IF i = Levels
        THEN [node EXCEPT !.Versions = vers]
        ELSE LET nib   == NibbleAt(key, i)
                 child == extendNode(db, node, nib, PathAt(key, i), 4 * (i + 1))
             IN  [node EXCEPT
                    !.Versions = vers,
                    !.Children[nib] =
                        SetInPlace(db, child, copy.Children[nib], key, i + 1, nv)]

\* What Set does to the tree under lastSaveRoot.  The nodes that tree shares
\* with the tree under root are the ones not copied into the journal; a
\* journal copy still shares its version slice with the node it was copied
\* from.  unshared holds the positions whose node under root was read from
\* the store on its own, after the slot was released from a journal copy.
RECURSIVE SetShared(_, _, _, _, _, _, _, _)
SetShared(db, journal, unshared, node, copy, key, i, nv) ==
    IF PosOf(key, i) \in unshared
    THEN node
    ELSE IF PosOf(key, i) \notin journal
    THEN SetInPlace(db, node, copy, key, i, nv)
    ELSE LET n    == Len(node.Versions)
             vers == IF n > 0 /\ node.Versions[n].Ver = nv
                     THEN [node.Versions EXCEPT ![n] = copy.Versions[Len(copy.Versions)]]
                     ELSE node.Versions
         IN  IF i = Levels
             THEN [node EXCEPT !.Versions = vers]
             ELSE LET nib == NibbleAt(key, i)
                      c   == node.Children[nib]
                  IN  IF c = Null \/ c.temporary
                      THEN [node EXCEPT !.Versions = vers]
                      ELSE [node EXCEPT
                              !.Versions = vers,
                              !.Children[nib] =
                                  SetShared(db, journal, unshared, c, copy.Children[nib],
                                            key, i + 1, nv)]

\* GetProof, the entries in the order the loop appends them, from level i on.
RECURSIVE ProofWalk(_, _, _, _)
ProofWalk(db, node, key, i) ==
    LET nib      == NibbleAt(key, i)
        child    == extendNode(db, node, nib, PathAt(key, i), 4 * (i + 1))
        neighbor == node.Children[Xor1(nib)]
        inner    == << node.Internals[Xor1(0 + nib \div 8)],
                       node.Internals[Xor1(2 + nib \div 4)],
                       node.Internals[Xor1(6 + nib \div 2)] >>
        next     == IF neighbor = Null
                    THEN NilHashesGet(4 * (i + 1))
                    ELSE Root(neighbor)
    IN  inner \o <<next>> \o
        (IF i + 1 = Levels THEN <<Root(child)>> ELSE ProofWalk(db, child, key, i + 1))

\* utils.ReverseBytes / utils.ReverseInts
Reverse(s) == [i \in 1 .. Len(s) |-> s[Len(s) + 1 - i]]

\* GetProof without the entry of the leaf.
GetProofNoLeaf(db, root, key) ==
    IF IsEmpty(root)
    THEN [j \in 1 .. MaxDepth |-> NilHashesGet(MaxDepth + 1 - j)]
    ELSE Tail(Reverse(ProofWalk(db, root, key, 0)))

\* GetProof, the proof returned.  On an empty tree it is the nil column,
\* returned as built.
GetProof(db, root, key) ==
    IF IsEmpty(root)
    THEN <<NilHashesGet(MaxDepth)>> \o [j \in 1 .. MaxDepth |-> NilHashesGet(MaxDepth + 1 - j)]
    ELSE Reverse(ProofWalk(db, root, key, 0))

\* GetProof, the in-place side: extendNode fills the slots on the path.
RECURSIVE ExtendPath(_, _, _, _)
ExtendPath(db, node, key, i) ==
    LET nib   == NibbleAt(key, i)
        child == extendNode(db, node, nib, PathAt(key, i), 4 * (i + 1))
    IN  [node EXCEPT !.Children[nib] =
            IF i + 1 = Levels THEN child ELSE ExtendPath(db, child, key, i + 1)]

RECURSIVE ExtendShared(_, _, _, _, _, _)
ExtendShared(db, journal, unshared, node, key, i) ==
    IF PosOf(key, i) \in unshared
    THEN node
    ELSE IF PosOf(key, i) \notin journal
    THEN ExtendPath(db, node, key, i)
    ELSE LET nib == NibbleAt(key, i)
             c   == node.Children[nib]
         IN  IF i + 1 = Levels \/ c = Null \/ c.temporary
             THEN node
             ELSE [node EXCEPT !.Children[nib] =
                     ExtendShared(db, journal, unshared, c, key, i + 1)]

\* The node at (depth, path) under node (at level s), Null when it or a node
\* above it is nil or temporary.
RECURSIVE RealAt(_, _, _, _)
RealAt(node, depth, path, s) ==
    IF node = Null \/ node.temporary
    THEN Null
    ELSE IF 4 * s = depth
    THEN node
    ELSE RealAt(node.Children[(path \div (16 ^ (depth \div 4 - 1 - s))) % 16], depth, path, s + 1)

\* The positions on the path of key, from level i on, that extendNode reads
\* from the store into a node the tree under lastSaveRoot does not hold.
RECURSIVE FreshLoads(_, _, _, _, _)
FreshLoads(root, owned, key, i, parentOwn) ==
    LET p     == PosOf(key, i)
        fresh == RealAt(root, p[1], p[2], 0) = Null
        own   == p \in owned \/ (fresh /\ parentOwn)
    IN  (IF fresh /\ parentOwn THEN {p} ELSE {}) \cup
        (IF i = Levels THEN {} ELSE FreshLoads(root, owned, key, i + 1, own))

\* The helper bits of VerifyProof, in the order the loop appends them.
RECURSIVE HelperWalk(_, _)
HelperWalk(key, i) ==
    LET nib == NibbleAt(key, i) IN
    (IF i > 0 THEN <<(PathAt(key, i) \div 16) % 2>> ELSE << >>) \o
    << (nib \div 8) % 2, (nib \div 4) % 2, (nib \div 2) % 2 >> \o
    (IF i + 1 = Levels THEN <<key % 2>> ELSE HelperWalk(key, i + 1))

RECURSIVE FoldProof(_, _, _, _)
FoldProof(node, proof, helpers, i) ==
    IF i > Len(proof)
    THEN node
    ELSE FoldProof(IF helpers[i - 1] = 0 THEN Hash(node, proof[i]) ELSE Hash(proof[i], node),
                   proof, helpers, i + 1)

\* VerifyProof with the helper bits in the order the loop appends them.
VerifyProofUnreversed(root, key, proof) ==
    LET helpers == HelperWalk(key, 0) IN
    /\ key < 2 ^ MaxDepth
    /\ Len(proof) = Len(helpers) + 1
    /\ Root(root) = FoldProof(proof[1], proof, helpers, 2)

\* VerifyProof
VerifyProof(root, key, proof) ==
    LET helpers == Reverse(HelperWalk(key, 0)) IN
    /\ key < 2 ^ MaxDepth
    /\ Len(proof) = Len(helpers) + 1
    /\ Root(root) = FoldProof(proof[1], proof, helpers, 2)

\* The newest entry of a stored version list that is not newer than version.
RECURSIVE NewestUpTo(_, _, _)
NewestUpTo(versions, version, i) ==
    IF i = 0
    THEN NilHashesGet(MaxDepth)
    ELSE IF versions[i].Ver <= version
         THEN versions[i].Hash
         ELSE NewestUpTo(versions, version, i - 1)

\* Get that also refuses the version of the floor itself.
GetAboveFloor(db, root, ver, recent, key, version) ==
    LET v == IF version = NoVersion THEN ver ELSE version IN
    IF root = Null THEN [err |-> "panic", val |-> NoBytes]
    ELSE IF IsEmpty(root) THEN [err |-> "ErrEmptyRoot", val |-> NoBytes]
    ELSE IF key >= 2 ^ MaxDepth THEN [err |-> "ErrInvalidKey", val |-> NoBytes]
    ELSE IF recent >= v THEN [err |-> "ErrVersionTooOld", val |-> NoBytes]
    ELSE IF v > ver THEN [err |-> "ErrVersionTooHigh", val |-> NoBytes]
    ELSE IF db.nodes[<<MaxDepth, key>>] = Null THEN [err |-> "ErrNodeNotFound", val |-> NoBytes]
    ELSE LET vs == db.nodes[<<MaxDepth, key>>].Versions
         IN  [err |-> "", val |-> NewestUpTo(vs, v, Len(vs))]

\* Get(key, version), version = NoVersion for the latest.  IsEmpty
\* dereferences the root: on a nil root the call panics.
Get(db, root, ver, recent, key, version) ==
    LET v == IF version = NoVersion THEN ver ELSE version IN
    IF root = Null THEN [err |-> "panic", val |-> NoBytes]
    ELSE IF IsEmpty(root) THEN [err |-> "ErrEmptyRoot", val |-> NoBytes]
    ELSE IF key >= 2 ^ MaxDepth THEN [err |-> "ErrInvalidKey", val |-> NoBytes]
    ELSE IF recent > v THEN [err |-> "ErrVersionTooOld", val |-> NoBytes]
    ELSE IF v > ver THEN [err |-> "ErrVersionTooHigh", val |-> NoBytes]
    ELSE IF db.nodes[<<MaxDepth, key>>] = Null THEN [err |-> "ErrNodeNotFound", val |-> NoBytes]
    ELSE LET vs == db.nodes[<<MaxDepth, key>>].Versions
         IN  [err |-> "", val |-> NewestUpTo(vs, v, Len(vs))]

\* The nibble at step s on the way from the root to the node at (depth, path).
NibOfPos(depth, path, s) == (path \div (16 ^ (depth \div 4 - 1 - s))) % 16

\* The node at (depth, path) under node, which is at level s.
RECURSIVE GetAt(_, _, _, _)
GetAt(node, depth, path, s) ==
    IF 4 * s = depth
    THEN node
    ELSE GetAt(node.Children[NibOfPos(depth, path, s)], depth, path, s + 1)

RECURSIVE PutAt(_, _, _, _, _)
PutAt(node, depth, path, s, new) ==
    IF 4 * s = depth
    THEN new
    ELSE [node EXCEPT ![ "Children" ][NibOfPos(depth, path, s)] =
            PutAt(node.Children[NibOfPos(depth, path, s)], depth, path, s + 1, new)]

\* Batcher.ValueSize counts the bytes of the values set: 32 for every hash of
\* the record.
RecordSize(rec) == 32 * (14 + Len(rec.Versions))

\* Batcher.Write of the node records set since the last Reset.
RECURSIVE WriteNodes(_, _, _)
WriteNodes(nodes, pend, i) ==
    IF i > Len(pend)
    THEN nodes
    ELSE WriteNodes([nodes EXCEPT ![pend[i][1]] = pend[i][2]], pend, i + 1)

\* writeNode for the journal nodes from order[idx] on.  st holds the root,
\* the batch (pend, size), the node records of the store, the number of
\* Write calls made and whether one has failed.  The failAt-th Write call
\* fails; 0 for none.
RECURSIVE CommitNodes(_, _, _, _, _, _)
CommitNodes(st, order, idx, rv, limit, failAt) ==
    IF idx > Len(order) \/ st.err
    THEN st
    ELSE LET pos    == order[idx]
             node   == GetAt(st.root, pos[1], pos[2], 0)
             pruned == IF rv # NoVersion THEN Prune(node, rv) ELSE node
             root2  == PutAt(st.root, pos[1], pos[2], 0, pruned)
             rec    == ToStorageTreeNode(pruned)
             pend2  == Append(st.pend, <<pos, rec>>)
             size2  == st.size + RecordSize(rec)
         IN  IF size2 > limit
             THEN IF failAt = st.writes + 1
                  THEN [st EXCEPT !.root = root2, !.pend = pend2, !.size = size2,
                                  !.writes = st.writes + 1, !.err = TRUE]
                  ELSE CommitNodes([root |-> root2, pend |-> << >>, size |-> 0,
                                    nodes |-> WriteNodes(st.nodes, pend2, 1),
                                    writes |-> st.writes + 1, err |-> FALSE],
                                   order, idx + 1, rv, limit, failAt)
             ELSE CommitNodes([st EXCEPT !.root = root2, !.pend = pend2, !.size = size2],
                              order, idx + 1, rv, limit, failAt)

\* The ring of gcStatus: ten slots, none in use.
Slots == 0 .. 9

NewGCStatus(threshold) ==
    [ threshold |-> threshold, segment |-> threshold \div 10,
      sizes |-> [i \in Slots |-> 0], versions |-> [i \in Slots |-> 0] ]

\* The GCThreshold option.
GCThreshold(t, threshold) ==
    [t EXCEPT !.gcStatus.threshold = threshold,
              !.gcStatus.segment = threshold \div 10]

\* Sizes are uint64.  A difference that wraps around is kept as the negative
\* number it would be without the wrap: it stands for 2^64 more, which is
\* above every threshold and falls in the last slot.
SlotOf(stat, size) ==
    IF size < 0 \/ size \div stat.segment > 9 THEN 9 ELSE size \div stat.segment

\* gcStatus.add divides by the segment: with a segment of 0 the call faults
\* (integer divide by zero) once version and size are not 0.
addFaults(stat, version, size) == version # 0 /\ size # 0 /\ stat.segment = 0

\* gcStatus.add; a call that faults leaves the ring as it was.
add(stat, version, size) ==
    IF version = 0 \/ size = 0 \/ addFaults(stat, version, size)
    THEN stat
    ELSE [stat EXCEPT !.sizes[SlotOf(stat, size)] = size,
                      !.versions[SlotOf(stat, size)] = version]

\* gcStatus.clean
clean(stat, index) ==
    [stat EXCEPT !.sizes = [i \in Slots |-> IF i <= index THEN 0 ELSE stat.sizes[i]],
                 !.versions = [i \in Slots |-> IF i <= index THEN 0 ELSE stat.versions[i]]]

\* currentSize - sizes[i] < threshold, in uint64.
DropsBelow(stat, currentSize, i) ==
    /\ stat.sizes[i] >= 0
    /\ stat.sizes[i] <= currentSize
    /\ currentSize - stat.sizes[i] < stat.threshold

\* The loop of gcStatus.pop from slot i on: the version it stops at, the last
\* version of a slot in use it has seen, and the ring.
RECURSIVE popScan(_, _, _, _)
popScan(stat, currentSize, i, maximal) ==
    IF i > 9
    THEN [except |-> 0, maximal |-> maximal, stat |-> stat]
    ELSE LET seen == IF stat.sizes[i] # 0 THEN stat.versions[i] ELSE maximal IN
         IF DropsBelow(stat, currentSize, i)
         THEN [except |-> stat.versions[i], maximal |-> seen, stat |-> clean(stat, i)]
         ELSE popScan(stat, currentSize, i + 1, seen)

\* gcStatus.pop: the version to release below, 0 for none, and the ring.
pop(stat, currentSize) ==
    IF currentSize < stat.threshold
    THEN [version |-> 0, stat |-> stat]
    ELSE LET r == popScan(stat, currentSize, 0, 0) IN
         IF r.except > 0
         THEN [version |-> r.except, stat |-> r.stat]
         ELSE [version |-> r.maximal, stat |-> clean(r.stat, 9)]

\* TreeNode.size: the bytes of the internals and the versions of the node and
\* of the nodes under it.
RECURSIVE size(_)
size(node) ==
    IF node = Null
    THEN 0
    ELSE LET Under[i \in 0 .. 16] ==
                 IF i = 0 THEN 0 ELSE Under[i - 1] + size(node.Children[i - 1])
         IN  32 * 14 + 32 * Len(node.Versions) + Under[16]

\* release(floor) as the residency step calls it: the child slots whose
\* subtree was last written below the floor are cleared, in the node and in
\* the children that stay, and the bytes they held are returned.
RECURSIVE releaseCold(_, _)
releaseCold(node, floor) ==
    IF node = Null
    THEN [node |-> node, size |-> 0]
    ELSE LET Cold(i) == /\ node.Children[i] # Null
                        /\ Len(node.Children[i].Versions) > 0
                        /\ node.Children[i].Versions[Len(node.Children[i].Versions)].Ver < floor
             Kept == [i \in Nibbles |->
                         IF Cold(i) THEN [node |-> Null, size |-> size(node.Children[i])]
                         ELSE releaseCold(node.Children[i], floor)]
             Sum[i \in 0 .. 16] == IF i = 0 THEN 0 ELSE Sum[i - 1] + Kept[i - 1].size
         IN  [node |-> [node EXCEPT !.Children = [i \in Nibbles |-> Kept[i].node]],
              size |-> Sum[16]]

\* size(floor) as the residency step calls it: the bytes of the tree, and
\* those of them that belong to versions below the floor, which are the
\* bytes a release at that floor gives back.
sizeBelow(node, floor) ==
    [current |-> size(node), releasable |-> releaseCold(node, floor).size]

\* The residency step that ends Commit: the root and the ring afterwards.
Residency(root, recentVersion, stat) ==
    LET sz   == sizeBelow(root, recentVersion)
        p    == pop(stat, sz.current)
        r    == IF p.version > 0 THEN releaseCold(root, p.version)
                ELSE [node |-> root, size |-> 0]
    IN  [root |-> r.node, gcStatus |-> add(p.stat, recentVersion, sz.releasable - r.size),
         panic |-> addFaults(p.stat, recentVersion, sz.releasable - r.size)]

\* A floor that only rejects what lies beyond the version being committed.
FloorBeyond(rv, newV) == rv # NoVersion /\ rv > newV

\* The test Commit starts with: recentVersion != nil && *recentVersion >= newVersion.
FloorTooHigh(rv, newV) == rv # NoVersion /\ rv >= newV

\* A Commit without a floor that forgets the one kept.
FloorOrNone(rv, kept) == IF rv # NoVersion THEN rv ELSE 0

\* The floor Commit leaves, in tree.recentVersion and under
\* recentVersionNumberKey: the one given, else the one kept.
FloorOr(rv, kept) == IF rv # NoVersion THEN rv ELSE kept

\* Commit(recentVersion).  t is the tree, order the order in which the journal
\* map is ranged over.
Commit(t, rv, order, failAt, limit) ==
    LET newV == t.version + 1 IN
    IF FloorTooHigh(rv, newV)
    THEN [t EXCEPT !.err = "ErrVersionTooHigh"]
    ELSE LET st == CommitNodes([root |-> t.root, pend |-> << >>, size |-> 0,
                                nodes |-> t.db.nodes, writes |-> 0, err |-> FALSE],
                               order, 1, rv, limit, failAt)
         IN  IF st.err \/ failAt = st.writes + 1
             THEN [t EXCEPT !.root = st.root, !.db.nodes = st.nodes, !.err = "store"]
             ELSE LET recent == FloorOr(rv, t.recentVersion)
                      gc     == Residency(st.root, recent, t.gcStatus)
                  IN
                  [ version       |-> newV,
                    recentVersion |-> recent,
                    root          |-> gc.root,
                    lastSaveRoot  |-> IF gc.panic THEN t.lastSaveRoot ELSE gc.root,
                    gcStatus      |-> gc.gcStatus,
                    journal       |-> IF gc.panic THEN t.journal ELSE {},
                    db            |-> [ latestVersion |-> newV,
                                        recentVersionNumber |->
                                            FloorOr(rv, t.db.recentVersionNumber),
                                        nodes |-> WriteNodes(st.nodes, st.pend, 1) ],
                    err           |-> IF gc.panic THEN "panic" ELSE "" ]

\* tree.rollback(child, oldVersion, batch): the node afterwards and the state
\* of the batch and the store.  RollbackChildren is its loop over
\* child.Children, which stops at the first error.
RECURSIVE rollback(_, _, _, _, _)
RECURSIVE RollbackChildren(_, _, _, _, _, _)
rollback(child, oldVersion, st, limit, failAt) ==
    IF child = Null
    THEN [node |-> child, st |-> st]
    ELSE LET r == NodeRollback(child, oldVersion) IN
         IF r.panic
         THEN [node |-> r.node, st |-> [st EXCEPT !.panic = TRUE]]
         ELSE IF ~r.next
         THEN [node |-> r.node, st |-> st]
         ELSE LET rec   == ToStorageTreeNode(r.node)
                  pend2 == Append(st.pend, <<(<<r.node.depth, r.node.path>>), rec>>)
                  size2 == st.size + RecordSize(rec)
              IN  IF size2 > limit
                  THEN IF failAt = st.writes + 1
                       THEN [node |-> r.node,
                             st |-> [st EXCEPT !.pend = pend2, !.size = size2,
                                               !.writes = st.writes + 1, !.err = TRUE]]
                       ELSE RollbackChildren(r.node, 0, oldVersion,
                                [st EXCEPT !.pend = << >>, !.size = 0,
                                           !.nodes = WriteNodes(st.nodes, pend2, 1),
                                           !.writes = st.writes + 1],
                                limit, failAt)
                  ELSE RollbackChildren(r.node, 0, oldVersion,
                           [st EXCEPT !.pend = pend2, !.size = size2], limit, failAt)

RollbackChildren(node, i, oldVersion, st, limit, failAt) ==
    IF i > 15 \/ st.err \/ st.panic
    THEN [node |-> node, st |-> st]
    ELSE LET r == rollback(node.Children[i], oldVersion, st, limit, failAt) IN
         RollbackChildren([node EXCEPT !.Children[i] = r.node], i + 1, oldVersion,
                          r.st, limit, failAt)

\* Rollback(version).  The error of tree.rollback is dropped; a nil root or a
\* child without a hasher ends the call in a nil dereference ("panic").
Rollback(t, v, failAt, limit) ==
    IF t.root = Null THEN [t EXCEPT !.err = "panic"]
    ELSE IF IsEmpty(t.root) THEN [t EXCEPT !.err = "ErrEmptyRoot"]
    ELSE IF t.recentVersion > v THEN [t EXCEPT !.err = "ErrVersionTooOld"]
    ELSE IF v > t.version THEN [t EXCEPT !.err = "ErrVersionTooHigh"]
    ELSE LET r  == rollback(t.lastSaveRoot, v,
                       [pend |-> << >>, size |-> 0, nodes |-> t.db.nodes,
                        writes |-> 0, err |-> FALSE, panic |-> FALSE],
                       limit, failAt)
             t1 == [t EXCEPT !.journal = {}, !.root = r.node, !.lastSaveRoot = r.node,
                             !.db.nodes = r.st.nodes]
         IN  IF r.st.panic THEN [t1 EXCEPT !.err = "panic"]
             ELSE IF failAt = r.st.writes + 1 THEN [t1 EXCEPT !.err = "store"]
             ELSE [t1 EXCEPT !.version = v,
                             !.db.latestVersion = v,
                             !.db.nodes = WriteNodes(r.st.nodes, r.st.pend, 1),
                             !.err = ""]

\* Rollback drops the error tree.rollback returns: a Write that fails while
\* the nodes are flushed stops the descent, and Rollback goes on to write
\* latestVersion and returns nil.  Swallowed tells whether the failing Write
\* of the call is one of those.
Swallowed(t, v, failAt, limit) ==
    /\ t.root # Null
    /\ ~IsEmpty(t.root)
    /\ t.recentVersion <= v
    /\ v <= t.version
    /\ rollback(t.lastSaveRoot, v,
                [pend |-> << >>, size |-> 0, nodes |-> t.db.nodes,
                 writes |-> 0, err |-> FALSE, panic |-> FALSE],
                limit, failAt).st.err

\* Reset that also forgets the version.
ResetVersion(t) ==
    [t EXCEPT !.journal = {}, !.root = t.lastSaveRoot, !.err = "", !.version = 0]

\* Reset
Reset(t) == [t EXCEPT !.journal = {}, !.root = t.lastSaveRoot, !.err = ""]

\* initFromStorage
initFromStorage(db) ==
    LET fresh == [ version |-> 0, recentVersion |-> 0, root |-> NewTreeNode(0, 0),
                   lastSaveRoot |-> Null, journal |-> {}, db |-> db, err |-> "",
                   gcStatus |-> NewGCStatus(DefaultGCThreshold) ]
    IN  IF db.latestVersion = -1
        THEN fresh
        ELSE LET t1 == [fresh EXCEPT
                          !.version = db.latestVersion,
                          !.recentVersion = IF db.recentVersionNumber = -1 THEN 0
                                            ELSE db.recentVersionNumber]
             IN  IF db.nodes[<<0, 0>>] = Null
                 THEN t1
                 ELSE LET r == ToTreeNode(db.nodes[<<0, 0>>], 0, 0)
                          n == Len(r.Versions)
                      IN  IF n > 0 /\ r.Versions[n].Ver # t1.version
                          THEN [t1 EXCEPT !.root = r, !.err = "ErrUnexpected"]
                          ELSE [t1 EXCEPT !.root = r]

\* NewBASSparseMerkleTree(hasher, db, maxDepth, nilHash, opts...)
NewBASSparseMerkleTree(db) == initFromStorage(db)

\* Set(key, val) on the tree t.
\* key >= 1<<tree.maxDepth, the test of Set, Get, GetProof and VerifyProof.
InvalidKey(key) == key >= 2 ^ MaxDepth

TreeSet(t, unshared, key, val) ==
    IF InvalidKey(key) THEN [t EXCEPT !.err = "ErrInvalidKey"] ELSE
    LET nv   == t.version + 1
        copy == SetCopy(t.db, t.root, key, 0, val, nv)
    IN  [t EXCEPT
            !.root    = copy,
            !.journal = t.journal \cup {PosOf(key, i) : i \in 0 .. Levels},
            !.lastSaveRoot =
                IF t.lastSaveRoot = Null
                THEN Null
                ELSE SetShared(t.db, t.journal, unshared, t.lastSaveRoot, copy, key, 0, nv),
            !.err = ""]

\* What GetProof(key) leaves of the tree t: extendNode has filled the slots
\* on the path, unless the tree is empty.
TreeExtend(t, unshared, key) ==
    IF IsEmpty(t.root)
    THEN t
    ELSE IF InvalidKey(key)
    THEN [t EXCEPT !.err = "ErrInvalidKey"]
    ELSE [t EXCEPT
            !.root = ExtendPath(t.db, t.root, key, 0),
            !.lastSaveRoot =
                IF t.lastSaveRoot = Null
                THEN Null
                ELSE ExtendShared(t.db, t.journal, unshared, t.lastSaveRoot, key, 0)]

\* Every order a range over a map with these keys can take.
RECURSIVE Perms(_)
Perms(S) ==
    IF S = {}
    THEN {<< >>}
    ELSE UNION {{<<x>> \o q : q \in Perms(S \ {x})} : x \in S}

\* The positions in increasing (depth, path) order.
RECURSIVE Sorted(_)
Sorted(S) ==
    IF S = {}
    THEN << >>
    ELSE LET x == CHOOSE y \in S :
                    \A z \in S : y[1] < z[1] \/ (y[1] = z[1] /\ y[2] <= z[2])
         IN  <<x>> \o Sorted(S \ {x})

\* An order of the journal nodes at and below position p in which the nodes
\* of early come before their parent and the others after it.
RECURSIVE OrientOrder(_, _, _)
RECURSIVE OrientAll(_, _, _, _)
OrientOrder(p, journal, early) ==
    LET kids == {c \in journal : c[1] = p[1] + 4 /\ c[2] \div 16 = p[2]}
    IN  OrientAll(Sorted(kids \cap early), journal, early, 1) \o <<p>> \o
        OrientAll(Sorted(kids \ early), journal, early, 1)

OrientAll(ps, journal, early, i) ==
    IF i > Len(ps)
    THEN << >>
    ELSE OrientOrder(ps[i], journal, early) \o OrientAll(ps, journal, early, i + 1)

\* writeNode writes after every node when the limit is below the size of the
\* smallest record, and never when it is above the size of the whole journal.
FlushesEach(limit) == limit < 32 * 15
NeverFlushes(limit, journal) == limit >= Cardinality(journal) * 32 * (15 + MaxVersion)

\* The orders of the journal map that Commit is run with: one for every
\* outcome the range over the map can have.
\*  - Without a floor and without a failing Write every order writes the same
\*    records and leaves the same tree.
\*  - With a floor, and no Write failing before the last, the order shows only
\*    in the version list a parent's record keeps of a child: pruned if the
\*    child came first.  The journal is a tree, so every choice of the
\*    children that come first is an order.
\*  - When a Write in the middle fails without a floor, the outcome is the
\*    set of nodes written before it.
Orders(t, rv, failAt, limit) ==
    LET shrunk == {p \in t.journal \ {<<0, 0>>} :
                     LET vs == GetAt(t.root, p[1], p[2], 0).Versions
                     IN  PruneVersions(vs, rv) # vs}
    IN  IF t.journal = {} THEN {<< >>}
        ELSE IF failAt = 0 \/ NeverFlushes(limit, t.journal)
        THEN IF rv = NoVersion
             THEN {Sorted(t.journal)}
             ELSE {OrientOrder(<<0, 0>>, t.journal, early) : early \in SUBSET shrunk}
        ELSE IF rv = NoVersion /\ FlushesEach(limit)
        THEN {Sorted(S) \o Sorted(t.journal \ S) : S \in SUBSET t.journal}
        ELSE Perms(t.journal)

\* ------------------------------------------------------------------------
\* The state machine: one tree instance over a store that outlives it
\* ------------------------------------------------------------------------

VARIABLES
    version,          \* tree.version
    recentVersion,    \* tree.recentVersion
    root,             \* tree.root
    lastSaveRoot,     \* tree.lastSaveRoot
    journal,          \* the keys of tree.journal; its nodes are those under root
    unshared,         \* positions under root read from the store on their own
    db,               \* the store
    batchSizeLimit,   \* tree.batchSizeLimit
    gcStatus,         \* tree.gcStatus
    crashed,          \* the instance is gone: a panic, or a constructor error
    cleanRoot,        \* history: the tree under root when the journal was last empty
    pending,          \* history: the Set and GetProof calls since then
    hist,             \* history: the batch committed at each surviving version
    rootAt,           \* history: Root() after the commit of each surviving version
    last,             \* history: the last call and what it returned
    count             \* history: the calls made, and those that failed at a Write

vars == << version, recentVersion, root, lastSaveRoot, journal, unshared, db,
           batchSizeLimit, gcStatus, crashed, cleanRoot, pending, hist, rootAt, last, count >>

Tree ==
    [ version |-> version, recentVersion |-> recentVersion, root |-> root,
      lastSaveRoot |-> lastSaveRoot, journal |-> journal, db |-> db, err |-> "",
      gcStatus |-> gcStatus ]

Install(t) ==
    /\ version' = t.version
    /\ recentVersion' = t.recentVersion
    /\ root' = t.root
    /\ lastSaveRoot' = t.lastSaveRoot
    /\ journal' = t.journal
    /\ db' = t.db
    /\ gcStatus' = t.gcStatus

Call(op, err, arg, ok) == [op |-> op, err |-> err, arg |-> arg, ok |-> ok]

\* The floors Commit is called with: none, or a version.
Floors == {NoVersion} \cup (1 .. MaxVersion)

\* One more call, failed at a Write or not.
Bump(failed) ==
    [ops |-> count.ops + 1, fail |-> count.fail + (IF failed THEN 1 ELSE 0)]

\* The Set calls of a sequence of calls, as <<key, value>> pairs.
SetsOf(calls) == SelectSeq(calls, LAMBDA c : c[1] = "set")

\* A new instance over an empty store, with the GCThreshold option.
Start(threshold) ==
    /\ batchSizeLimit \in {DefaultBatchSizeLimit, SmallBatchSizeLimit}
    /\ LET t == GCThreshold(NewBASSparseMerkleTree(EmptyDB), threshold) IN
        /\ version = t.version
        /\ recentVersion = t.recentVersion
        /\ root = t.root
        /\ lastSaveRoot = t.lastSaveRoot
        /\ journal = t.journal
        /\ db = t.db
        /\ gcStatus = t.gcStatus
        /\ cleanRoot = t.root
    /\ unshared = {}
    /\ crashed = FALSE
    /\ pending = << >>
    /\ hist = << >>
    /\ rootAt = << >>
    /\ last = Call("new", "", 0, TRUE)
    /\ count = [ops |-> 0, fail |-> 0]

Init == Start(DefaultGCThreshold)

\* A call on a tree whose root is nil dereferences it.
Panic(op, arg) ==
    /\ crashed' = TRUE
    /\ last' = Call(op, "panic", arg, FALSE)
    /\ UNCHANGED << version, recentVersion, root, lastSaveRoot, journal, unshared, db,
                    batchSizeLimit, gcStatus, cleanRoot, pending, hist, rootAt >>

\* A call that returns an error and leaves the instance as it was.
Refused(op, err, arg) ==
    /\ last' = Call(op, err, arg, FALSE)
    /\ UNCHANGED << version, recentVersion, root, lastSaveRoot, journal, unshared, db,
                    batchSizeLimit, gcStatus, crashed, cleanRoot, pending, hist, rootAt >>

SetCall(key, val) ==
    /\ ~crashed
    /\ count' = Bump(FALSE)
    /\ IF InvalidKey(key)
       THEN Refused("set", TreeSet(Tree, unshared, key, val).err, key)
       ELSE IF root = Null
       THEN Panic("set", key)
       ELSE /\ \E t \in {TreeSet(Tree, unshared, key, val)} : Install(t)
            /\ unshared' = unshared \cup
                   FreshLoads(root, journal \cup unshared, key, 1, <<0, 0>> \in journal)
            /\ pending' = Append(pending, <<"set", key, val>>)
            /\ last' = Call("set", "", key, TRUE)
            /\ UNCHANGED << batchSizeLimit, crashed, cleanRoot, hist, rootAt >>

GetProofCall(key) ==
    /\ ~crashed
    /\ count' = Bump(FALSE)
    /\ IF root = Null
       THEN Panic("proof", key)
       ELSE IF TreeExtend(Tree, unshared, key).err # ""
       THEN Refused("proof", TreeExtend(Tree, unshared, key).err, key)
       ELSE \E t \in {TreeExtend(Tree, unshared, key)} :
            /\ Install(t)
            /\ cleanRoot' = IF journal = {} THEN t.root ELSE cleanRoot
            /\ unshared' = IF IsEmpty(root) THEN unshared
                           ELSE unshared \cup
                                FreshLoads(root, journal \cup unshared, key, 1,
                                           <<0, 0>> \in journal)
            /\ pending' = Append(pending, <<"proof", key, NilLeaf>>)
            /\ last' = Call("proof", "", key,
                            VerifyProof(t.root, key, GetProof(db, root, key)))
            /\ UNCHANGED << batchSizeLimit, crashed, hist, rootAt >>

\* Root() as the history records it; a nil root has none.
RootOrNone(node) == IF node = Null THEN NoBytes ELSE Root(node)

CommitCall(rv, failAt) ==
    /\ ~crashed
    /\ failAt > 0 => count.fail < MaxFails
    /\ failAt <= Cardinality(journal) + 1
    /\ \E order \in Orders(Tree, rv, failAt, batchSizeLimit) :
        \E t \in {Commit(Tree, rv, order, failAt, batchSizeLimit)} :
        /\ failAt > 0 => t.err = "store"
        /\ count' = Bump(failAt > 0)
        /\ Install(t)
        /\ last' = Call("commit", t.err, rv, t.err = "")
        /\ IF t.err = ""
           THEN /\ unshared' = {}
                /\ cleanRoot' = t.root
                /\ pending' = << >>
                /\ hist' = Append(hist, SetsOf(pending))
                /\ rootAt' = Append(rootAt, RootOrNone(t.root))
           ELSE UNCHANGED << unshared, cleanRoot, pending, hist, rootAt >>
        /\ crashed' = (t.err = "panic")
        /\ UNCHANGED batchSizeLimit

\* Set, GetProof and Commit within the bounds of the exploration.
GetProofOp(key) ==
    /\ count.ops < MaxOps
    /\ GetProofCall(key)

SetOp(key, val) ==
    /\ count.ops < MaxOps
    /\ SetCall(key, val)

CommitOp(rv, failAt) ==
    /\ count.ops < MaxOps
    /\ version < MaxVersion
    /\ CommitCall(rv, failAt)

ResetOp ==
    /\ ~crashed
    /\ count.ops < MaxOps
    /\ count' = Bump(FALSE)
    /\ \E t \in {Reset(Tree)} : Install(t)
    /\ unshared' = {}
    /\ pending' = << >>
    /\ last' = Call("reset", "", 0, TRUE)
    /\ UNCHANGED << batchSizeLimit, crashed, cleanRoot, hist, rootAt >>

RollbackOp(v, failAt) ==
    /\ ~crashed
    /\ count.ops < MaxOps
    /\ failAt > 0 => count.fail < MaxFails
    /\ \E t \in {Rollback(Tree, v, failAt, batchSizeLimit)} :
        /\ failAt > 0 => (t.err = "store" \/ Swallowed(Tree, v, failAt, batchSizeLimit))
        /\ count' = Bump(failAt > 0)
        /\ Install(t)
        /\ last' = Call("rollback", t.err, v, t.err = "")
        /\ crashed' = (t.err = "panic")
        /\ IF t.err \in {"", "store"}
           THEN /\ unshared' = {}
                /\ cleanRoot' = t.root
                /\ pending' = << >>
           ELSE UNCHANGED << unshared, cleanRoot, pending >>
        /\ IF t.err = ""
           THEN /\ hist' = SubSeq(hist, 1, v)
                /\ rootAt' = SubSeq(rootAt, 1, v)
           ELSE UNCHANGED << hist, rootAt >>
        /\ UNCHANGED batchSizeLimit

\* A new instance over the same store, with the same options.
ReopenOp ==
    /\ count.ops < MaxOps
    /\ count' = Bump(FALSE)
    /\ \E t \in {GCThreshold(NewBASSparseMerkleTree(db), gcStatus.threshold)} :
        /\ Install(t)
        /\ cleanRoot' = t.root
        /\ crashed' = (t.err # "")
        /\ last' = Call("reopen", t.err, 0, t.err = "")
    /\ unshared' = {}
    /\ pending' = << >>
    /\ UNCHANGED << batchSizeLimit, hist, rootAt >>

\* The Write calls a Commit or a Rollback can make: one for every node, and
\* the last one.
Writes == 0 .. Cardinality(Positions) + 1

Next ==
    \/ \E in \in Inputs : SetOp(in[1], in[2])
    \/ \E key \in Keys : GetProofOp(key)
    \/ \E rv \in Floors, failAt \in Writes : CommitOp(rv, failAt)
    \/ ResetOp
    \/ \E v \in 0 .. MaxVersion, failAt \in Writes : RollbackOp(v, failAt)
    \/ ReopenOp

Spec == Init /\ [][Next]_vars

\* Longer runs of Set and Commit alone, with the default batch size limit and
\* no failing Write: two keys under different children of the root, and every
\* floor.
DeepInputs == {<<k, <<1>>>> : k \in DeepKeys}
DeepFloors == {NoVersion} \cup (1 .. DeepVersion)

DeepInit ==
    /\ Init
    /\ batchSizeLimit = DefaultBatchSizeLimit

DeepSetOp(key, val) ==
    /\ count.ops < DeepOps
    /\ SetCall(key, val)

DeepCommitOp(rv) ==
    /\ count.ops < DeepOps
    /\ version < DeepVersion
    /\ CommitCall(rv, 0)

DeepNext ==
    \/ \E in \in DeepInputs : DeepSetOp(in[1], in[2])
    \/ \E rv \in DeepFloors : DeepCommitOp(rv)

SpecDeep == DeepInit /\ [][DeepNext]_vars

\* The same runs with a small GC threshold, so that the residency step of
\* Commit has a tree above the threshold to work on.
GCInit ==
    /\ Start(SmallGCThreshold)
    /\ batchSizeLimit = DefaultBatchSizeLimit

SpecGC == GCInit /\ [][DeepNext]_vars

\* The same runs with GetProof, and with a key beyond the key space.
BadKey == 2 ^ MaxDepth
KeyInputs == DeepInputs \cup {<<BadKey, <<1>>>>}

KeySetOp(key, val) ==
    /\ count.ops < DeepOps
    /\ SetCall(key, val)

KeyGetProofOp(key) ==
    /\ count.ops < DeepOps
    /\ GetProofCall(key)

KeyNext ==
    \/ \E in \in KeyInputs : KeySetOp(in[1], in[2])
    \/ \E key \in DeepKeys \cup {BadKey} : KeyGetProofOp(key)
    \/ \E rv \in DeepFloors : DeepCommitOp(rv)

SpecKey == DeepInit /\ [][KeyNext]_vars

\* The key test at every depth the constructor accepts up to the width of
\* the key.  A uint64 is kept as four 16-bit limbs, the most significant
\* first, so that no value leaves the range of the integers at hand.
Limb == 65536
Zero64 == <<0, 0, 0, 0>>
Ones64 == <<Limb - 1, Limb - 1, Limb - 1, Limb - 1>>

\* uint64(1) << d: a shift by the width or more gives 0.
ShiftOne(d) ==
    IF d >= 64 THEN Zero64
    ELSE [i \in 1 .. 4 |-> IF 4 - i = d \div 16 THEN 2 ^ (d % 16) ELSE 0]

\* a >= b on uint64.
RECURSIVE GeqFrom(_, _, _)
GeqFrom(a, b, i) ==
    IF i > 4 THEN TRUE
    ELSE IF a[i] # b[i] THEN a[i] > b[i]
    ELSE GeqFrom(a, b, i + 1)

\* key >= 1<<tree.maxDepth on an instance of depth d.
InvalidKeyAt(d, key) == GeqFrom(key, ShiftOne(d), 1)

\* The depths: the multiples of 4 up to 4 * MaxNibbles.
Depths == {4 * n : n \in 1 .. MaxNibbles}

\* 2^d - 1, the last key of depth d.
LastKey(d) ==
    [i \in 1 .. 4 |->
        IF 16 * (4 - i) >= d THEN 0
        ELSE IF 16 * (5 - i) <= d THEN Limb - 1
        ELSE 2 ^ (d - 16 * (4 - i)) - 1]

\* The keys tried at depth d: the first and the last of the key space, the
\* first beyond it, and the last uint64.
KeysAt(d) == {Zero64, LastKey(d), ShiftOne(d), Ones64}

\* Set(key) on an instance of depth d, as far as the key test.
KeyTestOp(d, key) ==
    /\ count.ops < DeepOps
    /\ count' = Bump(FALSE)
    /\ last' = Call("key", IF InvalidKeyAt(d, key) THEN "ErrInvalidKey" ELSE "",
                    <<d, key>>, ~InvalidKeyAt(d, key))
    /\ UNCHANGED << version, recentVersion, root, lastSaveRoot, journal, unshared, db,
                    batchSizeLimit, gcStatus, crashed, cleanRoot, pending, hist, rootAt >>

RangeNext == \E d \in Depths : \E key \in KeysAt(d) : KeyTestOp(d, key)

SpecRange == DeepInit /\ [][RangeNext]_vars

\* The history is as long as the version.
TypeOK ==
    /\ Len(hist) = version
    /\ Len(rootAt) = version
    /\ crashed \in BOOLEAN

\* ------------------------------------------------------------------------
\* What the properties below speak of
\* ------------------------------------------------------------------------

\* Whether a batch sets key; how often; and the value of its last Set of key.
Written(batch, key) == \E i \in 1 .. Len(batch) : batch[i][2] = key

TimesSet(batch, key) == Cardinality({i \in 1 .. Len(batch) : batch[i][2] = key})

LastVal(batch, key) ==
    LET i == CHOOSE j \in 1 .. Len(batch) :
                /\ batch[j][2] = key
                /\ \A m \in (j + 1) .. Len(batch) : batch[m][2] # key
    IN  batch[i][3]

\* The batch without the Sets of key that a later Set of key follows.
OnlyLast(batch, key) ==
    LET keep == {i \in 1 .. Len(batch) :
                    batch[i][2] # key \/ \A m \in (i + 1) .. Len(batch) : batch[m][2] # key}
        RECURSIVE Pick(_)
        Pick(i) == IF i > Len(batch) THEN << >>
                   ELSE (IF i \in keep THEN <<batch[i]>> ELSE << >>) \o Pick(i + 1)
    IN  Pick(1)

\* The last call was a Commit, or a Rollback, that returned no error.
Committed == last.op = "commit" /\ last.err = ""
RolledBack == last.op = "rollback" /\ last.err = ""

\* No Write of the store has failed so far.
NoFailure == count.fail = 0

\* get(key, version) and get(key) on the tree, and on another instance t.
GetVersion(key, v) == Get(db, root, version, recentVersion, key, v)
GetLatest(key) == GetVersion(key, NoVersion)
GetOn(t, key, v) == Get(t.db, t.root, t.version, t.recentVersion, key, v)

\* verify_proof(key, get_proof(key)) against the tree under rt; both calls
\* dereference the root.
ProofVerifies(rt, store, key) ==
    rt # Null /\ VerifyProof(rt, key, GetProof(store, rt, key))

\* Root() after Set(key, val) on the tree under rt.
RootAfterSet(rt, key, val) == Root(SetCopy(db, rt, key, 0, val, version + 1))

\* A second tree, given the sets of the batches one after the other, each
\* batch committed without a floor, with no other call in between.
RECURSIVE ApplySets(_, _, _)
ApplySets(t, batch, i) ==
    IF i > Len(batch)
    THEN t
    ELSE ApplySets(TreeSet(t, {}, batch[i][2], batch[i][3]), batch, i + 1)

RECURSIVE Replay(_, _, _)
Replay(t, batches, i) ==
    IF i > Len(batches)
    THEN t
    ELSE LET s == ApplySets(t, batches[i], 1) IN
         Replay(Commit(s, NoVersion, Sorted(s.journal), 0, DefaultBatchSizeLimit),
                batches, i + 1)

Reference == Replay(NewBASSparseMerkleTree(EmptyDB), hist, 1)

\* No node record of the store carries a version above the stored
\* latestVersion (none stored counts as 0).
NoFutureRecord(store) ==
    \A p \in Positions :
        store.nodes[p] # Null =>
            \A i \in 1 .. Len(store.nodes[p].Versions) :
                store.nodes[p].Versions[i].Ver <=
                    (IF store.latestVersion = -1 THEN 0 ELSE store.latestVersion)

\* ------------------------------------------------------------------------
\* Properties
\* ------------------------------------------------------------------------

\* C1 (round trip): after a run of calls in which no Write failed, right
\* after a Commit that succeeded, with or without a floor, Get(k, nil)
\* returns for every key k of the committed batch the value last set for it.
C1_RoundTrip ==
    (Committed /\ NoFailure) =>
        \A k \in Keys :
            Written(hist[version], k) =>
                GetLatest(k) = [err |-> "", val |-> LastVal(hist[version], k)]

\* C2 (proof soundness): right after every Commit that succeeded, whatever
\* floor it was given and whatever calls came before, VerifyProof(k,
\* GetProof(k)) is true for every key k.
C2_ProofSoundness ==
    Committed => \A k \in Keys : ProofVerifies(root, db, k)

\* C3 (persistence): right after a Commit that succeeded, in a run in which
\* no Write failed, a new tree over the same store is built without error
\* and has the same version and the same root hash; for every key written it
\* returns the same Get result and a proof that verifies against the root of
\* the first tree.
C3_Persistence ==
    (Committed /\ NoFailure) =>
        LET n == NewBASSparseMerkleTree(db) IN
        /\ n.err = ""
        /\ n.version = version
        /\ root # Null
        /\ Root(n.root) = Root(root)
        /\ \A k \in Keys :
              (\E v \in 1 .. version : Written(hist[v], k)) =>
                  /\ GetOn(n, k, NoVersion) = GetLatest(k)
                  /\ VerifyProof(root, k, GetProof(n.db, n.root, k))

\* C4 (historical read): when key k was written in the commit of version v1
\* and again in the commit of a later version v2, then at every later time at
\* which v1 >= recentVersion, Get(k, v1) returns the value of the first
\* commit and Get(k, v2) the value of the second.
C4_HistoricalRead ==
    (NoFailure /\ ~crashed) =>
        \A k \in Keys : \A v1 \in 1 .. version : \A v2 \in (v1 + 1) .. version :
            (Written(hist[v1], k) /\ Written(hist[v2], k) /\ v1 >= recentVersion) =>
                /\ GetVersion(k, v1) = [err |-> "", val |-> LastVal(hist[v1], k)]
                /\ GetVersion(k, v2) = [err |-> "", val |-> LastVal(hist[v2], k)]

\* C5 (rollback): right after a Rollback(v) that succeeded, the version is v;
\* Get(k, v') fails with ErrVersionTooHigh for every key k and every v' > v,
\* on this tree and on a new tree over the same store; and a second
\* Rollback(v) leaves version, root hash and store as they are.
C5_Rollback ==
    RolledBack =>
        LET n     == NewBASSparseMerkleTree(db)
            again == Rollback(Tree, last.arg, 0, batchSizeLimit)
        IN
        /\ version = last.arg
        /\ \A k \in Keys : \A v \in (version + 1) .. (MaxVersion + 1) :
              GetVersion(k, v).err = "ErrVersionTooHigh"
        /\ n.err = ""
        /\ \A k \in Keys : \A v \in (version + 1) .. (MaxVersion + 1) :
              GetOn(n, k, v).err = "ErrVersionTooHigh"
        /\ again.version = version
        /\ RootOrNone(again.root) = RootOrNone(root)
        /\ again.db = db

\* C6 (root after rollback): right after a Rollback(v) that succeeded, to a
\* version v some commit produced, Root() is the root hash the tree had right
\* after that commit (the hash a proof taken then folds to).
C6_RollbackRoot ==
    (RolledBack /\ last.arg >= 1) =>
        /\ root # Null
        /\ Root(root) = rootAt[last.arg]

\* C7 (reset): right after Reset, in any state, the journal is empty, Root()
\* is the root hash of the last commit that succeeded (the hash of the empty
\* tree when there is none), and a Set or a GetProof that follows gives what
\* it gives on the tree as it was when the journal was last empty.
C7_Reset ==
    last.op = "reset" =>
        /\ journal = {}
        /\ root # Null
        /\ Root(root) = (IF version = 0 THEN NilHashesGet(0) ELSE rootAt[version])
        /\ \A in \in Inputs :
              RootAfterSet(root, in[1], in[2]) = RootAfterSet(cleanRoot, in[1], in[2])
        /\ \A k \in Keys : GetProof(db, root, k) = GetProof(db, cleanRoot, k)

\* C8 (determinism of the root): right after every Commit that succeeded, in
\* a run in which no Write failed, Root() and Get(k, nil) are those of a
\* second tree given the same surviving batches and nothing else: no floors,
\* no abandoned batches, no commits undone by a rollback.
C8_Determinism ==
    (Committed /\ NoFailure) =>
        /\ root # Null
        /\ Root(root) = Root(Reference.root)
        /\ \A k \in Keys : GetLatest(k) = GetOn(Reference, k, NoVersion)

\* C9 (last set wins): when a batch sets key k more than once, then after
\* the Commit of the batch Get(k, nil) returns the value of the last of those
\* sets, the leaf of k has one entry for the new version, and Root() is the
\* root of the tree had the batch held only that last Set of k.
C9_LastSetWins ==
    [][ (last'.op = "commit" /\ last'.err = "" /\ count.fail = 0) =>
            \A k \in Keys :
                TimesSet(SetsOf(pending), k) >= 2 =>
                    LET b    == SetsOf(pending)
                        leaf == GetAt(root', MaxDepth, k, 0).Versions
                        twin == ApplySets([Tree EXCEPT !.root = cleanRoot, !.journal = {},
                                                       !.lastSaveRoot = Null],
                                          OnlyLast(b, k), 1)
                    IN  /\ Get(db', root', version', recentVersion', k, NoVersion)
                              = [err |-> "", val |-> LastVal(b, k)]
                        /\ Cardinality({i \in 1 .. Len(leaf) : leaf[i].Ver = version'}) = 1
                        /\ Root(root') = Root(twin.root)
      ]_vars

\* C10 (commit is atomic in the store): a Commit that fails leaves the store
\* as it was, whatever the batch size limit; a Commit that succeeds leaves
\* the new latestVersion and a record with that version for every journal
\* node; and no Commit leaves a node record with a version above the stored
\* latestVersion when there was none before.
C10_CommitAtomic ==
    [][ (last'.op = "commit" /\ count'.ops = count.ops + 1) =>
            /\ last'.err # "" => db' = db
            /\ last'.err = "" =>
                  /\ db'.latestVersion = version'
                  /\ \A p \in journal :
                        LET vs == db'.nodes[p].Versions IN
                        Len(vs) > 0 /\ vs[Len(vs)].Ver = version'
            /\ NoFutureRecord(db) => NoFutureRecord(db')
      ]_vars

\* The entries of a version list below a floor.
Below(versions, floor) == {i \in 1 .. Len(versions) : versions[i].Ver < floor}

\* C11 (pruning): right after a Commit(floor) that succeeded, every node
\* record in the store has at most one version entry below the floor.
C11_PruneFloor ==
    (Committed /\ last.arg # NoVersion) =>
        \A p \in Positions :
            db.nodes[p] # Null =>
                Cardinality(Below(db.nodes[p].Versions, last.arg)) <= 1

\* The keys some surviving batch has set.
EverWritten(batches) ==
    {k \in Keys \cup DeepKeys : \E v \in 1 .. Len(batches) : Written(batches[v], k)}

\* The slots of the journal nodes that hold a child in the tree under before
\* and none in the tree under after.
Evicted(before, after, nodes) ==
    {<<p, i>> \in nodes \X Nibbles :
        /\ GetAt(before, p[1], p[2], 0).Children[i] # Null
        /\ GetAt(after, p[1], p[2], 0).Children[i] = Null}

\* C12 (eviction is transparent): when a Commit that succeeds releases
\* children, the records it writes still list every child the node had,
\* Root() is what it was, the proof of every key written so far verifies, and
\* a Set of any key gives the root it gives on the tree with nothing released.
C12_EvictionTransparent ==
    [][ ( /\ last'.op = "commit" /\ last'.err = "" /\ count'.ops = count.ops + 1
          /\ root # Null
          /\ Evicted(root, root', journal) # {} ) =>
            /\ \A p \in journal : \A i \in Nibbles :
                  GetAt(root, p[1], p[2], 0).Children[i] # Null =>
                      db'.nodes[p].Children[i] # Null
            /\ Root(root') = Root(root)
            /\ \A k \in EverWritten(hist') : ProofVerifies(root', db', k)
            /\ \A in \in Inputs :
                  Root(SetCopy(db', root', in[1], 0, in[2], version' + 1)) =
                      Root(SetCopy(db', root, in[1], 0, in[2], version' + 1))
      ]_vars

\* BASSparseMerkleTree.Size
Size == size(root)

\* The largest of the subtrees under the root.
OneSubtree ==
    LET sizes == {size(root.Children[i]) : i \in Nibbles}
    IN  CHOOSE m \in sizes : \A n \in sizes : n <= m

\* C13 (residency bound): with a GC threshold configured, right after a
\* Commit that succeeded the resident tree is no larger than the threshold
\* plus the size of one subtree.
C13_ResidencyBound ==
    (Committed /\ root # Null) => Size <= gcStatus.threshold + OneSubtree

\* The proof of a key of the empty tree: the nil hash of a leaf, then the nil
\* hashes of the depths MaxDepth down to 1.
NilColumn ==
    [j \in 1 .. MaxDepth + 1 |->
        IF j = 1 THEN NilHashesGet(MaxDepth) ELSE NilHashesGet(MaxDepth + 2 - j)]

\* No Commit has succeeded on the store and no Set is pending.
NeverWritten ==
    /\ ~crashed
    /\ version = 0
    /\ db.latestVersion = -1
    /\ journal = {}
    /\ SetsOf(pending) = << >>

\* C14 (proof of the empty tree): on a tree with no commit and no pending
\* Set, GetProof of every key returns the column of nil hashes and
\* VerifyProof accepts it.
C14_EmptyTreeProof ==
    NeverWritten =>
        \A k \in Keys \cup DeepKeys :
            /\ root # Null
            /\ GetProof(db, root, k) = NilColumn
            /\ VerifyProof(root, k, NilColumn)

\* A proof cut short after each of its entries, and the proof with one entry
\* more.
OtherLengths(proof) ==
    {SubSeq(proof, 1, n) : n \in 0 .. Len(proof) - 1} \cup {proof \o <<proof[1]>>}

\* C15 (proof length): at depth MaxDepth, the proof GetProof returns for a
\* key, on an empty tree or not, has MaxDepth + 1 entries, and VerifyProof
\* rejects a proof of any other length.
C15_ProofLength ==
    (~crashed /\ root # Null) =>
        \A k \in Keys :
            LET proof == GetProof(db, root, k) IN
            /\ Len(proof) = MaxDepth + 1
            /\ \A other \in OtherLengths(proof) : ~VerifyProof(root, k, other)

\* GetProof has returned a proof of a key of a tree that is not empty, and
\* VerifyProof has accepted it.
C15_Witness ==
    /\ last.op = "proof" /\ last.err = "" /\ last.ok
    /\ root # Null /\ ~IsEmpty(root)

\* A call on the instance, as opposed to a new instance over the store.
CallStep == count'.ops = count.ops + 1 /\ last'.op # "reopen"

\* C16 (version stepping): a Commit that succeeds returns the latest version
\* plus one and makes it the latest version; a Rollback that succeeds makes
\* its target, which is no newer, the latest version; Set, GetProof, Reset and
\* every Commit or Rollback that fails leave the latest version as it was.
C16_VersionStepping ==
    [][ CallStep =>
          IF last'.op = "commit" /\ last'.err = ""
          THEN version' = version + 1
          ELSE IF last'.op = "rollback" /\ last'.err = ""
          THEN version' = last'.arg /\ version' <= version
          ELSE version' = version
      ]_vars

\* A Rollback has succeeded and has taken the latest version back.
C16_Witness ==
    /\ RolledBack
    /\ version = last.arg
    /\ Len(rootAt) = version
    /\ db.latestVersion = version
    /\ version >= 1

\* C17 (floor too high): Commit with a floor at or above the latest version
\* plus one returns ErrVersionTooHigh and leaves the versions, the root, the
\* journal and the store as they were, so that a Commit of the pending Sets
\* still succeeds; with a lower floor, or none, it never returns
\* ErrVersionTooHigh.
C17_FloorTooHigh ==
    [][ (CallStep /\ last'.op = "commit") =>
          IF last'.arg # NoVersion /\ last'.arg >= version + 1
          THEN /\ last'.err = "ErrVersionTooHigh"
               /\ UNCHANGED << version, recentVersion, root, lastSaveRoot, journal, db,
                               pending >>
               /\ Commit(Tree, NoVersion, Sorted(journal), 0, batchSizeLimit).err = ""
          ELSE last'.err # "ErrVersionTooHigh"
      ]_vars

\* A Commit of pending Sets has been rejected for its floor.
C17_Witness ==
    /\ last.op = "commit" /\ last.err = "ErrVersionTooHigh"
    /\ last.arg >= version + 1
    /\ journal # {}

\* C18 (retention floor): a Commit with a floor that succeeds leaves the
\* floor in recentVersion and under the store key recentVersionNumber; a
\* Commit without a floor that succeeds leaves both as they were; Rollback
\* and Reset leave recentVersion as it was.
C18_RecentVersion ==
    [][ CallStep =>
          IF last'.op = "commit" /\ last'.err = "" /\ last'.arg # NoVersion
          THEN recentVersion' = last'.arg /\ db'.recentVersionNumber = last'.arg
          ELSE IF last'.op = "commit" /\ last'.err = ""
          THEN /\ recentVersion' = recentVersion
               /\ db'.recentVersionNumber = db.recentVersionNumber
          ELSE last'.op \in {"rollback", "reset"} => recentVersion' = recentVersion
      ]_vars

\* A Commit without a floor has succeeded on a tree that has one.
C18_Witness ==
    /\ Committed /\ last.arg = NoVersion
    /\ recentVersion >= 1
    /\ db.recentVersionNumber = recentVersion

\* The versions Get is asked for: those of the exploration and one beyond.
AskedVersions == 0 .. MaxVersion + 1

\* Get(k, ver) of a tree that is not empty returns ErrVersionTooOld exactly
\* below the floor and ErrVersionTooHigh exactly above the latest version.
GetVersionErrors ==
    (~crashed /\ root # Null /\ ~IsEmpty(root)) =>
        \A k \in Keys, v \in AskedVersions :
            /\ GetVersion(k, v).err = "ErrVersionTooOld" <=> v < recentVersion
            /\ GetVersion(k, v).err = "ErrVersionTooHigh" <=> v > version

\* Rollback(ver) of a tree that is not empty does the same, and leaves the
\* tree and the store alone when it does.
RollbackVersionErrors ==
    (CallStep /\ last'.op = "rollback" /\ root # Null /\ ~IsEmpty(root)) =>
        /\ last'.err = "ErrVersionTooOld" <=> last'.arg < recentVersion
        /\ last'.err = "ErrVersionTooHigh" <=> last'.arg > version
        /\ last'.err \in {"ErrVersionTooOld", "ErrVersionTooHigh"} =>
               UNCHANGED << version, recentVersion, root, lastSaveRoot, journal, db >>

\* C19 (version range): on a tree that is not empty, Get of a valid key and
\* Rollback return ErrVersionTooOld exactly when the version is below
\* recentVersion and ErrVersionTooHigh exactly when it is above the latest
\* version, and the root, the version, the journal and the store stay as
\* they were.
C19_VersionRange == []GetVersionErrors /\ [][RollbackVersionErrors]_vars

\* Rollback has refused a version below the floor of a tree that is not
\* empty, and Get refuses it too.
C19_Witness ==
    /\ last.op = "rollback" /\ last.err = "ErrVersionTooOld"
    /\ root # Null /\ ~IsEmpty(root)
    /\ last.arg < recentVersion
    /\ \A k \in Keys : GetVersion(k, last.arg).err = "ErrVersionTooOld"

\* C20 (key never set): on a tree with a committed key, Get of a key whose
\* leaf record is not in the store, at a version from recentVersion to the
\* latest, returns the nil hash of depth MaxDepth and no error.
C20_AbsentLeaf ==
    (~crashed /\ root # Null /\ ~IsEmpty(root) /\ EverWritten(hist) # {}) =>
        \A k \in Keys :
            db.nodes[<<MaxDepth, k>>] = Null =>
                \A v \in recentVersion .. version :
                    GetVersion(k, v) = [err |-> "", val |-> NilHashesGet(MaxDepth)]

\* No Commit has succeeded on this store.
NoCommitYet == version = 0 /\ db.latestVersion = -1

\* C21 (ErrEmptyRoot): while no Commit has succeeded, Get and Rollback return
\* ErrEmptyRoot for every key and version, pending Sets or not; once a Commit
\* that holds a Set has succeeded, they no longer return it for a version
\* from recentVersion to the latest.
C21_EmptyRoot ==
    ~crashed =>
        /\ NoCommitYet =>
              \A k \in Keys, v \in AskedVersions :
                  /\ GetVersion(k, v).err = "ErrEmptyRoot"
                  /\ Rollback(Tree, v, 0, batchSizeLimit).err = "ErrEmptyRoot"
        /\ EverWritten(hist) # {} =>
              \A k \in Keys, v \in recentVersion .. version :
                  /\ GetVersion(k, v).err # "ErrEmptyRoot"
                  /\ Rollback(Tree, v, 0, batchSizeLimit).err # "ErrEmptyRoot"

\* The two calls made on the new tree are Set(0, v) and a Commit without a
\* floor that returned version 1.
FirstCommitOfKey0 ==
    /\ Committed /\ last.arg = NoVersion
    /\ count.ops = 2
    /\ version = 1
    /\ Len(hist) = 1 /\ Len(hist[1]) = 1 /\ hist[1][1][2] = 0

\* C22 (first commit): on a new tree, after Set(0, v) and a Commit without a
\* floor that returns version 1, Get(0, 1) returns v and Get(0, 0) returns
\* ErrEmptyRoot.
C22_FirstCommit ==
    FirstCommitOfKey0 =>
        /\ GetVersion(0, 1) = [err |-> "", val |-> hist[1][1][3]]
        /\ GetVersion(0, 0).err = "ErrEmptyRoot"

\* Get of a key beyond the key space returns ErrInvalidKey, and VerifyProof
\* refuses the key with the proof of a key of the tree.
BadKeyRead ==
    (~crashed /\ root # Null) =>
        /\ GetLatest(BadKey).err = "ErrInvalidKey"
        /\ \A k \in DeepKeys : ~VerifyProof(root, BadKey, GetProof(db, root, k))

\* Set and GetProof of a key beyond the key space return ErrInvalidKey and
\* leave the tree and the store alone.
BadKeyCall ==
    (CallStep /\ last'.op \in {"set", "proof"} /\ last'.arg = BadKey) =>
        /\ last'.err = "ErrInvalidKey"
        /\ UNCHANGED << version, recentVersion, root, lastSaveRoot, journal, db >>

\* C23 (invalid key): for a key at or beyond 2^MaxDepth and every state of
\* the tree, empty, clean or dirty, Set, Get and GetProof return
\* ErrInvalidKey, VerifyProof returns false, and the root, the version, the
\* journal and the store stay as they were.
C23_InvalidKey == []BadKeyRead /\ [][BadKeyCall]_vars

\* C24 (store errors): when a Write of the store fails during a Commit or a
\* Rollback, the call returns the error, does not report success, and leaves
\* the latest version as it was.
C24_StoreErrors ==
    [][ (CallStep /\ count'.fail = count.fail + 1) =>
          /\ last'.op \in {"commit", "rollback"}
          /\ last'.err = "store"
          /\ ~last'.ok
          /\ version' = version
      ]_vars

\* The key is below 2^d: the bits from d up are all 0.
InKeySpace(d, key) ==
    \A i \in 1 .. 4 :
        IF 16 * (4 - i) >= d THEN key[i] = 0
        ELSE 16 * (5 - i) > d => key[i] < 2 ^ (d - 16 * (4 - i))

\* C25 (key range): at every depth the constructor accepts, the keys the
\* key test lets through are exactly those below 2^depth, taken without
\* wrap-around; at depth 64 that is every key.
C25_KeyRange ==
    last.op = "key" => (last.err = "" <=> InKeySpace(last.arg[1], last.arg[2]))

\* The Sets of the surviving batches and the pending ones, in order.
RECURSIVE Flatten(_, _)
Flatten(batches, i) ==
    IF i > Len(batches) THEN << >> ELSE batches[i] \o Flatten(batches, i + 1)

AllSets == Flatten(hist, 1) \o SetsOf(pending)

\* Every call so far was a Set, or a Commit without a floor that succeeded.
OnlySetAndCommit ==
    /\ ~crashed
    /\ recentVersion = 0
    /\ count.fail = 0
    /\ count.ops = Len(AllSets) + Len(hist)

\* The reference tree: a binary sparse Merkle tree of depth MaxDepth.  An
\* empty subtree at depth d hashes to RefNil[d].
RefNil[d \in 0 .. MaxDepth] ==
    IF d = MaxDepth THEN NilLeaf ELSE Hash(RefNil[d + 1], RefNil[d + 1])

\* The last value set for the key, the nil leaf for a key never set.
RefLeaf(sets, key) == IF Written(sets, key) THEN LastVal(sets, key) ELSE NilLeaf

\* The hash of the reference subtree at depth d whose keys start with prefix.
RECURSIVE RefHash(_, _, _)
RefHash(sets, d, prefix) ==
    IF d = MaxDepth
    THEN RefLeaf(sets, prefix)
    ELSE IF \A k \in Keys \cup DeepKeys :
                Written(sets, k) => k \div (2 ^ (MaxDepth - d)) # prefix
    THEN RefNil[d]
    ELSE Hash(RefHash(sets, d + 1, 2 * prefix), RefHash(sets, d + 1, 2 * prefix + 1))

\* C26 (reference root): after Sets and Commits without a floor alone, Root()
\* is the root of the reference binary sparse Merkle tree whose leaves hold
\* the last value set for each key, pending Sets included, and the nil leaf
\* elsewhere.
C26_ReferenceRoot ==
    OnlySetAndCommit => Root(root) = RefHash(AllSets, 0, 0)

\* Two keys have been set and committed, one of them set again since.
C26_Witness ==
    /\ OnlySetAndCommit
    /\ Len(hist) >= 1
    /\ Cardinality({k \in Keys : Written(Flatten(hist, 1), k)}) >= 2
    /\ Len(SetsOf(pending)) >= 1
    /\ Root(root) = RefHash(AllSets, 0, 0)
    /\ Root(root) # RefNil[0]

\* The positions of the packed nodes above the leaves.
InnerPositions == {p \in Positions : p[1] < MaxDepth}

\* The last version entry carries the hash of the two top internals.
RootOfInternals(node) ==
    Len(node.Versions) > 0 =>
        node.Versions[Len(node.Versions)].Hash = Hash(node.Internals[0], node.Internals[1])

\* C27 (I1): in every state, every node above the leaves that is resident
\* and not a placeholder, and every record of such a node in the store, has
\* in its last version entry the hash of its internals 0 and 1.
C27_RootOfInternals ==
    ~crashed =>
        \A p \in InnerPositions :
            /\ RealAt(root, p[1], p[2], 0) # Null =>
                  RootOfInternals(RealAt(root, p[1], p[2], 0))
            /\ db.nodes[p] # Null => RootOfInternals(db.nodes[p])

\* The node at (depth, path) under node (at level s), placeholders included;
\* Null when it or a node above it is nil.
RECURSIVE ResidentAt(_, _, _, _)
ResidentAt(node, depth, path, s) ==
    IF node = Null \/ 4 * s = depth
    THEN node
    ELSE ResidentAt(node.Children[NibOfPos(depth, path, s)], depth, path, s + 1)

\* The versions of a list go up strictly and none is above top.
IncreasingUpTo(versions, top) ==
    /\ \A i \in 1 .. Len(versions) - 1 : versions[i].Ver < versions[i + 1].Ver
    /\ \A i \in 1 .. Len(versions) : versions[i].Ver <= top

\* C28 (I2): in every state the version list of every resident node goes up
\* strictly and holds no version above the latest plus one, and that of
\* every node record in the store goes up strictly and holds none above the
\* latest; a Set at the version of the last entry overwrites it.
C28_VersionLists ==
    ~crashed =>
        \A p \in Positions :
            /\ ResidentAt(root, p[1], p[2], 0) # Null =>
                  IncreasingUpTo(ResidentAt(root, p[1], p[2], 0).Versions, version + 1)
            /\ db.nodes[p] # Null => IncreasingUpTo(db.nodes[p].Versions, version)

\* After a successful Commit the journal is empty and root is lastSaveRoot.
SavedIsRoot == (last.op = "commit" /\ last.ok) => (journal = {} /\ root = lastSaveRoot)

\* While Sets are pending, lastSaveRoot has the root hash of the last
\* successful Commit that survives.
SavedRootKept ==
    (~crashed /\ journal # {} /\ Len(rootAt) > 0) =>
        (lastSaveRoot # Null /\ Root(lastSaveRoot) = rootAt[Len(rootAt)])

\* The version entries, the internals and the child root hashes of n are
\* those of m.
SameNode(n, m) ==
    /\ m # Null
    /\ m.Versions = n.Versions
    /\ m.Internals = n.Internals
    /\ \A i \in 0 .. 15 : ChildRootOr(m, i) = ChildRootOr(n, i)

\* A Set leaves every node under lastSaveRoot as it was.
SetOnlyClones ==
    (CallStep /\ last'.op = "set" /\ last'.ok /\ lastSaveRoot # Null) =>
        \A p \in Positions :
            LET n == ResidentAt(lastSaveRoot, p[1], p[2], 0) IN
            (n # Null /\ ~n.temporary) =>
                SameNode(n, ResidentAt(lastSaveRoot', p[1], p[2], 0))

\* C29 (I4): when the journal is empty after a successful Commit, root is
\* lastSaveRoot; while Sets are pending, lastSaveRoot still has the root hash
\* of the last successful Commit; and no Set changes the version entries, the
\* internals or the child root hashes of a node reachable from lastSaveRoot.
C29_CopyOnWrite == [](SavedIsRoot /\ SavedRootKept) /\ [][SetOnlyClones]_vars

\* No entry of versions is above top.
NoneAbove(versions, top) == \A i \in 1 .. Len(versions) : versions[i].Ver <= top

\* What a successful Rollback(target) leaves in memory and in the store.
RolledBackTo(target) ==
    /\ \A p \in Positions :
          /\ ResidentAt(root, p[1], p[2], 0) # Null =>
                NoneAbove(ResidentAt(root, p[1], p[2], 0).Versions, target)
          /\ db.nodes[p] # Null => NoneAbove(db.nodes[p].Versions, target)
    /\ db.latestVersion = target
    /\ journal = {}

\* A tree opened from the store loads without error at the version target.
ReopensAt(target) ==
    /\ NewBASSparseMerkleTree(db).err = ""
    /\ NewBASSparseMerkleTree(db).version = target

\* C30: after a successful Rollback(target), on the instance that made the
\* commits or on one re-opened from the store, no resident node and no store
\* record holds a version entry above target, the stored latestVersion is
\* target, the journal is empty, and a tree re-opened from the store loads
\* without error with version target.
C30_RollbackResult == RolledBack => (RolledBackTo(last.arg) /\ ReopensAt(last.arg))

\* GetProof(k) verifies on the tree, and its first entry is what Get(k, v)
\* returns.
ProofOfGet(k, v) ==
    /\ ProofVerifies(root, db, k)
    /\ GetVersion(k, v).err = ""
    /\ GetProof(db, root, k)[1] = GetVersion(k, v).val

\* Set(key, val) gives the root it gives on a tree that committed the
\* surviving batches and nothing else.
SetAsReference(key, val) ==
    /\ root # Null
    /\ RootAfterSet(root, key, val) = Root(TreeSet(Reference, {}, key, val).root)

WrittenUpTo(key, v) == {u \in 1 .. v : u <= Len(hist) /\ Written(hist[u], key)}

\* The value key had at version v, for a key some batch up to v has set.
ValueAt(key, v) ==
    LastVal(hist[CHOOSE u \in WrittenUpTo(key, v) :
                     \A w \in WrittenUpTo(key, v) : w <= u], key)

\* A Commit does not lower recentVersion.
FloorKept == (CallStep /\ last'.op = "commit") => recentVersion' >= recentVersion

\* Get answers every version from recentVersion to version, unless it says
\* ErrVersionTooOld, with the value the key had then.
FloorAnswers ==
    ~crashed =>
        \A k \in DeepKeys : \A v \in recentVersion .. version :
            (WrittenUpTo(k, v) # {} /\ GetVersion(k, v).err # "ErrVersionTooOld") =>
                GetVersion(k, v) = [err |-> "", val |-> ValueAt(k, v)]

\* C32 (retention floor): recentVersion never decreases over Commits, and
\* every version from recentVersion to version that Get does not refuse with
\* ErrVersionTooOld is answered with the value the key had at that version.
C32_FloorMonotone == []FloorAnswers /\ [][FloorKept]_vars

\* ------------------------------------------------------------------------
\* TreeNode.Prune on its own: every strictly increasing version list over a
\* few versions, pruned at every floor
\* ------------------------------------------------------------------------

\* The versions of the lists pruned.
MaxPruned == 6

\* The strictly increasing list of the versions in S, each with a hash of
\* its own.
RECURSIVE ListOf(_, _)
ListOf(S, v) ==
    IF v > MaxPruned THEN << >>
    ELSE (IF v \in S THEN <<[Ver |-> v, Hash |-> <<v>>]>> ELSE << >>) \o ListOf(S, v + 1)

VersionLists == {ListOf(S, 1) : S \in SUBSET (1 .. MaxPruned)}
PruneFloors == 0 .. MaxPruned + 1

\* Prune(floor) on a node with the version list: the list before, the floor
\* and the list after.
PruneOp(versions, floor) ==
    /\ count.ops < DeepOps
    /\ count' = Bump(FALSE)
    /\ last' = Call("prune", "", <<versions, floor, PruneVersions(versions, floor)>>, TRUE)
    /\ UNCHANGED << version, recentVersion, root, lastSaveRoot, journal, unshared, db,
                    batchSizeLimit, gcStatus, crashed, cleanRoot, pending, hist, rootAt >>

PruneNext == \E versions \in VersionLists : \E floor \in PruneFloors : PruneOp(versions, floor)

SpecPrune == DeepInit /\ [][PruneNext]_vars

\* The newest entry of versions at or below q; Null when there is none.
NewestAt(versions, q) ==
    LET at == {i \in 1 .. Len(versions) : versions[i].Ver <= q} IN
    IF at = {} THEN Null ELSE versions[CHOOSE i \in at : \A j \in at : j <= i]

\* after is the suffix of before from the 0-based index i.
KeptFrom(before, after, i) == after = SubSeq(before, i + 1, Len(before))

\* The 0-based indices of the entries at or above the floor.
AtOrAbove(versions, floor) == {i \in 0 .. Len(versions) - 1 : versions[i + 1].Ver >= floor}

\* The rule: with i the first index at or above the floor, keep from i - 1
\* when i > 0 and the entry at i is above the floor, and from i otherwise.
PruneRule(before, floor, after) ==
    AtOrAbove(before, floor) # {} =>
        LET i == CHOOSE i \in AtOrAbove(before, floor) :
                     \A j \in AtOrAbove(before, floor) : i <= j
        IN  IF i > 0 /\ before[i + 1].Ver > floor
            THEN KeptFrom(before, after, i - 1)
            ELSE KeptFrom(before, after, i)

\* C33 (pruning rule): Prune(floor) on a strictly increasing version list
\* keeps a suffix; for every version q at or above the floor the newest entry
\* at or below q is the one it was; the last entry stays and a list with
\* entries keeps one; at most one entry below the floor stays; and the
\* suffix is the one the rule gives.
C33_PruneRule ==
    last.op = "prune" =>
        LET before == last.arg[1]
            floor  == last.arg[2]
            after  == last.arg[3]
        IN
        /\ \E i \in 0 .. Len(before) : KeptFrom(before, after, i)
        /\ \A q \in floor .. MaxPruned + 1 : NewestAt(after, q) = NewestAt(before, q)
        /\ Len(before) > 0 =>
              Len(after) > 0 /\ after[Len(after)] = before[Len(before)]
        /\ Cardinality(Below(after, floor)) <= 1
        /\ PruneRule(before, floor, after)

\* A list of four entries or more, two or more of them below the floor, has
\* been pruned to a shorter one that keeps one entry below the floor.
C33_Witness ==
    /\ last.op = "prune"
    /\ Len(last.arg[1]) >= 4
    /\ Len(last.arg[3]) < Len(last.arg[1])
    /\ Cardinality(Below(last.arg[3], last.arg[2])) = 1
    /\ Cardinality(Below(last.arg[1], last.arg[2])) >= 2

\* ------------------------------------------------------------------------
\* TreeNode.setChildren on its own: a node of depth 0 built by a few calls,
\* every slot, an absent child and two children
\* ------------------------------------------------------------------------

\* The calls made on the node, and the versions they carry.
NodeOps == 2
NodeVersions == 1 .. 2

\* The receiver of setChildren after the call.  Copy hands the copy the
\* version slice of the receiver, and newVersion on the copy overwrites the
\* last entry of that slice when it already carries the version.
setChildrenReceiver(node, child, nibble, nv) ==
    LET n == Len(node.Versions) IN
    IF n > 0 /\ node.Versions[n].Ver = nv
    THEN [node EXCEPT !.Versions = setChildren(node, child, nibble, nv).Versions]
    ELSE node

\* A child of slot nibble with a root hash of its own.
ChildOf(nibble, hash) == set(NewTreeNode(4, nibble), hash, 1)
ChildrenOf(nibble) == {Null, ChildOf(nibble, <<1>>), ChildOf(nibble, <<2>>)}

\* The node the next call is made on: the one the last call returned.
NodeNow == IF last.op = "setChildren" THEN last.arg.copied ELSE NewTreeNode(0, 0)

\* setChildren(child, nibble, version) on the node: the receiver before and
\* after, and the node returned.
SetChildrenOp(child, nibble, v) ==
    /\ count.ops < NodeOps
    /\ Len(NodeNow.Versions) > 0 => NodeNow.Versions[Len(NodeNow.Versions)].Ver <= v
    /\ count' = Bump(FALSE)
    /\ last' = Call("setChildren", "",
                    [ receiver |-> NodeNow, child |-> child, nibble |-> nibble,
                      version |-> v,
                      copied |-> setChildren(NodeNow, child, nibble, v),
                      after |-> setChildrenReceiver(NodeNow, child, nibble, v) ],
                    TRUE)
    /\ UNCHANGED << version, recentVersion, root, lastSaveRoot, journal, unshared, db,
                    batchSizeLimit, gcStatus, crashed, cleanRoot, pending, hist, rootAt >>

NodeNext ==
    \E nibble \in Nibbles : \E child \in ChildrenOf(nibble) : \E v \in NodeVersions :
        SetChildrenOp(child, nibble, v)

SpecNode == DeepInit /\ [][NodeNext]_vars

\* The internals on the path from slot nibble to the root of the node.
PathInternals(nibble) == {6 + nibble \div 2, 2 + nibble \div 4, nibble \div 8}

\* The node returned has the child in the slot and the internals of a full
\* recomputation, and differs from the receiver in three internals at most.
Incremental(a) ==
    /\ a.copied.Children = [a.receiver.Children EXCEPT ![a.nibble] = a.child]
    /\ a.copied.Internals = computeInternalHash(a.copied)
    /\ \A i \in 0 .. 13 :
          i \notin PathInternals(a.nibble) => a.copied.Internals[i] = a.receiver.Internals[i]

\* The new root is appended at the version, or overwrites a last entry of
\* that version.
RootRecorded(a) ==
    LET n == Len(a.receiver.Versions)
        e == [Ver |-> a.version, Hash |-> Hash(a.copied.Internals[0], a.copied.Internals[1])]
    IN  a.copied.Versions =
            IF n > 0 /\ a.receiver.Versions[n].Ver = a.version
            THEN [a.receiver.Versions EXCEPT ![n] = e]
            ELSE Append(a.receiver.Versions, e)

\* C34 (setChildren): on a node whose internals are those of its children,
\* setChildren returns a node whose internals are those of a full
\* recomputation from the 16 children, changing at most the three internals
\* on the path of the slot; the receiver is as it was; and the new root is
\* appended at the version or overwrites the last entry of that version.
C34_SetChildren ==
    (last.op = "setChildren" /\ last.arg.receiver.Internals = computeInternalHash(last.arg.receiver)) =>
        /\ Incremental(last.arg)
        /\ last.arg.after = last.arg.receiver
        /\ RootRecorded(last.arg)

\* The fold of a proof by the bits of the key, the least significant first:
\* entry i goes to the right of the node when bit i - 1 of the key is 0, to
\* its left when it is 1.
RECURSIVE FoldByBits(_, _, _, _)
FoldByBits(node, proof, key, i) ==
    IF i > Len(proof)
    THEN node
    ELSE FoldByBits(IF (key \div 2 ^ (i - 1)) % 2 = 0
                    THEN Hash(node, proof[i])
                    ELSE Hash(proof[i], node),
                    proof, key, i + 1)

\* The keys VerifyProof is asked about, and the proofs handed to it: the
\* proof of every key, each also cut short and with an entry more.
KeysTried == Keys \cup DeepKeys
ProofsTried ==
    UNION {{p, Tail(p), p \o <<p[1]>>} : p \in {GetProof(db, root, k) : k \in KeysTried}}

\* C35 (VerifyProof): for a key below 2^MaxDepth, VerifyProof accepts a proof
\* exactly when it has MaxDepth + 1 entries and the fold of the entries by
\* the bits of the key, the least significant first, ends in Root().
C35_VerifyProof ==
    (~crashed /\ root # Null) =>
        \A p \in ProofsTried : \A k \in KeysTried :
            VerifyProof(root, k, p) <=>
                /\ Len(p) = MaxDepth + 1
                /\ FoldByBits(p[1], Tail(p), k, 1) = Root(root)

\* On a tree with committed keys VerifyProof accepts the proof of key 16 for
\* key 16 and rejects it for key 0.
C35_Witness ==
    /\ Committed /\ ~crashed /\ root # Null /\ ~IsEmpty(root)
    /\ VerifyProof(root, 16, GetProof(db, root, 16))
    /\ ~VerifyProof(root, 0, GetProof(db, root, 16))

\* The node decoded from rec has the version list and the internals of n
\* and, slot by slot, a child where n has one, with the same root hash; its
\* children are placeholders, temporary until extendNode reads their record.
Decodes(rec, n, store) ==
    LET d == ToTreeNode(rec, n.depth, n.path) IN
    /\ d.Versions = n.Versions
    /\ Root(d) = Root(n)
    /\ d.Internals = n.Internals
    /\ \A i \in Nibbles :
          /\ d.Children[i] = Null <=> n.Children[i] = Null
          /\ ChildRootOr(d, i) = ChildRootOr(n, i)
          /\ d.Children[i] # Null =>
                /\ d.Children[i].temporary
                /\ n.depth < MaxDepth =>
                      ~extendNode(store, d, i, 16 * n.path + i, n.depth + 4).temporary

\* A Commit that succeeds leaves, for every node of its journal, a record
\* that decodes to the node as it is in the committed tree.
CommitDecodes ==
    (CallStep /\ last'.op = "commit" /\ last'.err = "") =>
        \A p \in journal :
            /\ db'.nodes[p] # Null
            /\ RealAt(root', p[1], p[2], 0) # Null
            /\ Decodes(db'.nodes[p], RealAt(root', p[1], p[2], 0), db')

\* C36 (codec round trip): for every node a Commit writes, the record
\* decoded at the same depth and path has the version list, the 14 internals
\* and, for each of the 16 slots, the presence and the root hash of the child
\* that the node has in the committed tree; every child of the decoded node
\* is a temporary placeholder that extendNode re-expands from the store.
C36_CodecRoundTrip == [][CommitDecodes]_vars

\* ------------------------------------------------------------------------
\* gcStatus on its own: a ring with the small threshold, filled by add with
\* versions that do not decrease, and asked by pop
\* ------------------------------------------------------------------------

\* The calls made on the ring, and the versions, the sizes and the tree
\* sizes they carry.
RingOps == 4
RingVersions == 1 .. 3
RingSizes == {150, 450, 950, 1500}
CurrentSizes == {500, 1000, 1200, 5000}

\* The slots in use, and the versions they hold.
InUse(stat) == {i \in Slots : stat.sizes[i] # 0}
Retained(stat) == {stat.versions[i] : i \in InUse(stat)}

\* gcStatus.add(version, size), as Commit calls it with its floor.
RingAddOp(v, sz) ==
    /\ count.ops < RingOps
    /\ \A u \in Retained(gcStatus) : u <= v
    /\ count' = Bump(FALSE)
    /\ gcStatus' = add(gcStatus, v, sz)
    /\ last' = Call("add", "", <<v, sz>>, TRUE)
    /\ UNCHANGED << version, recentVersion, root, lastSaveRoot, journal, unshared, db,
                    batchSizeLimit, crashed, cleanRoot, pending, hist, rootAt >>

\* gcStatus.pop(currentSize): the size asked with, the ring before, and the
\* version returned.
RingPopOp(currentSize) ==
    /\ count.ops < RingOps
    /\ count' = Bump(FALSE)
    /\ gcStatus' = pop(gcStatus, currentSize).stat
    /\ last' = Call("pop", "",
                    [ currentSize |-> currentSize, before |-> gcStatus,
                      version |-> pop(gcStatus, currentSize).version ],
                    TRUE)
    /\ UNCHANGED << version, recentVersion, root, lastSaveRoot, journal, unshared, db,
                    batchSizeLimit, crashed, cleanRoot, pending, hist, rootAt >>

RingNext ==
    \/ \E v \in RingVersions : \E sz \in RingSizes : RingAddOp(v, sz)
    \/ \E currentSize \in CurrentSizes : RingPopOp(currentSize)

SpecRing == GCInit /\ [][RingNext]_vars

\* The slots whose release brings currentSize below the threshold, by the
\* difference of the integers.
Qualifies(stat, currentSize) ==
    {i \in InUse(stat) : currentSize - stat.sizes[i] < stat.threshold}

\* The largest of a set of versions, 0 for none.
Largest(S) == IF S = {} THEN 0 ELSE CHOOSE v \in S : \A u \in S : u <= v

\* C37 (residency manager selection): pop(currentSize) returns 0 and leaves
\* every slot when currentSize is below the threshold; otherwise it returns
\* the version of the lowest slot whose size brings currentSize below the
\* threshold and clears the slots up to it; and when no slot does, it
\* returns the largest version retained and clears every slot.
C37_PopSelection ==
    last.op = "pop" =>
        LET before == last.arg.before
            cs     == last.arg.currentSize
            q      == Qualifies(before, cs)
        IN  IF cs < before.threshold
            THEN last.arg.version = 0 /\ gcStatus = before
            ELSE IF q # {}
            THEN LET i == CHOOSE i \in q : \A j \in q : i <= j IN
                 /\ last.arg.version = before.versions[i]
                 /\ gcStatus = clean(before, i)
            ELSE /\ last.arg.version = Largest(Retained(before))
                 /\ gcStatus = clean(before, 9)

\* ------------------------------------------------------------------------
\* Runs of Set and Commit with every kind of GC threshold: 0, below 10, 10
\* and above
\* ------------------------------------------------------------------------

TinyThresholds == {0, 9, 10, 25}

TinyInit ==
    /\ \E threshold \in TinyThresholds : Start(threshold)
    /\ batchSizeLimit = DefaultBatchSizeLimit

SpecTiny == TinyInit /\ [][DeepNext]_vars

\* C38 (GC threshold): with every threshold the GCThreshold option accepts,
\* values below 10 included, no Commit ends in an arithmetic fault: the
\* segment add divides by is not 0 when the version and the size are not 0,
\* and the slot index lies in 0 .. 9.
C38_NoArithmeticFault ==
    /\ ~(last.op = "commit" /\ last.err = "panic")
    /\ InUse(gcStatus) \subseteq 0 .. 9

\* ------------------------------------------------------------------------
\* The classical Merkle tree of accumulators/merkleTree: NewTree,
\* BuildMerkleProofs and VerifyMerkleProofs
\* ------------------------------------------------------------------------

MaxMerkleHeight == 2
MerkleHeights == 0 .. MaxMerkleHeight

\* The helper bits.
Left == 0
Right == 1

\* The leaf values NewTree is given.
LeafValues == {<<1>>, <<2>>}

\* The leaf lists of 1 .. 2^maxHeight leaves.
LeafLists(maxHeight) ==
    UNION {[1 .. n -> LeafValues] : n \in 1 .. 2 ^ maxHeight}

HashSubTrees(l, r) == Hash(l, r)

\* NilHashValueConst[i] as InitNilHashValueConst fills it.
RECURSIVE NilHashValueConst(_)
NilHashValueConst(i) ==
    IF i = 0 THEN NilLeaf
    ELSE HashSubTrees(NilHashValueConst(i - 1), NilHashValueConst(i - 1))

\* BuildTree on the node values of one height: the levels from that height
\* up to the root, each as it is linked (an odd level gets a nil node
\* appended). The node at 0-based position i of a level has the node at
\* position i \div 2 of the next level as Parent, and is its Left exactly
\* when i is even.
RECURSIVE BuildTree(_, _, _)
BuildTree(nodes, height, maxHeight) ==
    IF height = maxHeight /\ Len(nodes) = 1 THEN <<nodes>>
    ELSE LET padded  == IF Len(nodes) % 2 # 0
                        THEN Append(nodes, NilHashValueConst(height))
                        ELSE nodes
             parents == [i \in 1 .. Len(padded) \div 2 |->
                            HashSubTrees(padded[2 * i - 1], padded[2 * i])]
         IN  <<padded>> \o BuildTree(parents, height + 1, maxHeight)

\* NewTree on a list of leaves that is not empty. Levels[h + 1] holds the
\* node values of height h.
NewTree(leaves, maxHeight) ==
    [Leaves    |-> leaves,
     MaxHeight |-> maxHeight,
     Levels    |-> BuildTree(leaves, 0, maxHeight)]

RootNode(t) == t.Levels[t.MaxHeight + 1][1]

\* The loop "for node.Parent != nil" of BuildMerkleProofs, from the node at
\* position idx of the height.
RECURSIVE ClimbToRoot(_, _, _, _, _)
ClimbToRoot(t, height, idx, proofs, helpers) ==
    IF height >= t.MaxHeight THEN [proofs |-> proofs, helpers |-> helpers, err |-> ""]
    ELSE IF idx % 2 = 0
    THEN ClimbToRoot(t, height + 1, idx \div 2,
                     Append(proofs, t.Levels[height + 1][idx + 2]),
                     Append(helpers, Left))
    ELSE ClimbToRoot(t, height + 1, idx \div 2,
                     Append(proofs, t.Levels[height + 1][idx]),
                     Append(helpers, Right))

\* The loop "for lastIndex+1 != index" of BuildMerkleProofs and what follows
\* it: nil hashes up to the height where the last leaf's ancestor is taken
\* for the sibling, then that ancestor with the helper Right, then the climb
\* from its parent. Reading a node above the root is a nil dereference.
RECURSIVE ClimbFromLast(_, _, _, _, _, _)
ClimbFromLast(t, height, lastIndex, index, proofs, helpers) ==
    IF height > t.MaxHeight THEN [proofs |-> << >>, helpers |-> << >>, err |-> "panic"]
    ELSE IF lastIndex + 1 # index
    THEN ClimbFromLast(t, height + 1, lastIndex \div 2, index \div 2,
                       Append(proofs, NilHashValueConst(height)),
                       Append(helpers, IF index % 2 = 0 THEN Right ELSE Left))
    ELSE IF height = t.MaxHeight THEN [proofs |-> << >>, helpers |-> << >>, err |-> "panic"]
    ELSE ClimbToRoot(t, height + 1, lastIndex \div 2,
                     Append(proofs, t.Levels[height + 1][lastIndex + 1]),
                     Append(helpers, Right))

\* BuildMerkleProofs(index) on a tree with leaves, for an index that is not
\* negative.
BuildMerkleProofs(t, index) ==
    IF index >= 2 ^ t.MaxHeight
    THEN [proofs |-> << >>, helpers |-> << >>, err |-> "index error"]
    ELSE IF index < Len(t.Leaves)
    THEN ClimbToRoot(t, 0, index, <<t.Leaves[index + 1]>>, << >>)
    ELSE ClimbFromLast(t, 0, Len(t.Leaves) - 1, index, <<NilHashValueConst(0)>>, << >>)

\* The fold of VerifyMerkleProofs from the entry i on.
RECURSIVE FoldProofs(_, _, _, _)
FoldProofs(node, inclusionProofs, helperProofs, i) ==
    IF i > Len(inclusionProofs) THEN node
    ELSE IF helperProofs[i - 1] = Left
    THEN FoldProofs(HashSubTrees(node, inclusionProofs[i]), inclusionProofs, helperProofs, i + 1)
    ELSE FoldProofs(HashSubTrees(inclusionProofs[i], node), inclusionProofs, helperProofs, i + 1)

\* VerifyMerkleProofs on a tree with leaves.
VerifyMerkleProofs(t, inclusionProofs, helperProofs) ==
    IF Len(inclusionProofs) # Len(helperProofs) + 1 THEN FALSE
    ELSE IF \E i \in 1 .. Len(helperProofs) : helperProofs[i] \notin {Left, Right} THEN FALSE
    ELSE FoldProofs(inclusionProofs[1], inclusionProofs, helperProofs, 2) = RootNode(t)

\* NewTree(leaves, maxHeight), BuildMerkleProofs(index) and, when that gives
\* a proof, VerifyMerkleProofs on its output.
MerkleProofOp(leaves, maxHeight, index) ==
    /\ count.ops < DeepOps
    /\ count' = Bump(FALSE)
    /\ LET t == NewTree(leaves, maxHeight)
           p == BuildMerkleProofs(t, index)
       IN  last' = Call("merkleProof", p.err,
                        [leaves |-> leaves, maxHeight |-> maxHeight, index |-> index,
                         proofs |-> p.proofs, helpers |-> p.helpers,
                         verified |-> p.err = "" /\ VerifyMerkleProofs(t, p.proofs, p.helpers)],
                        p.err = "")
    /\ UNCHANGED << version, recentVersion, root, lastSaveRoot, journal, unshared, db,
                    batchSizeLimit, gcStatus, crashed, cleanRoot, pending, hist, rootAt >>

MerkleNext ==
    \E maxHeight \in MerkleHeights : \E leaves \in LeafLists(maxHeight) :
        \E index \in 0 .. 2 ^ maxHeight + 1 : MerkleProofOp(leaves, maxHeight, index)

SpecMerkle == DeepInit /\ [][MerkleNext]_vars

\* C39 (classical Merkle tree): on a tree NewTree built from 1 .. 2^MaxHeight
\* leaves, BuildMerkleProofs of an index below 2^MaxHeight succeeds with
\* MaxHeight + 1 proof entries and MaxHeight helper bits, the first entry is
\* the leaf at the index, or the nil hash beyond the leaves, and
\* VerifyMerkleProofs accepts the output; an index of 2^MaxHeight or more is
\* an error.
C39_MerkleProofs ==
    last.op = "merkleProof" =>
        LET a == last.arg IN
        IF a.index >= 2 ^ a.maxHeight THEN last.err # ""
        ELSE /\ last.err = ""
             /\ Len(a.proofs) = a.maxHeight + 1
             /\ Len(a.helpers) = a.maxHeight
             /\ a.proofs[1] = (IF a.index < Len(a.leaves) THEN a.leaves[a.index + 1]
                               ELSE NilHashValueConst(0))
             /\ a.verified
====
